---- MODULE Spec2Model ----
(***************************************************************************)
(* Content normalisation and enrichment pipeline of omnisummary:           *)
(*   - the enrichment splicer (_enrich_content_with_figures, HTML and PDF) *)
(*   - the image size-budget compressor (Figure._resize_if_needed)         *)
(*   - the artifact store (ToolStateManager)                               *)
(*   - the figure coordinator and parse (HTMLParser / PdfParser)           *)
(* Text is a sequence of symbols: the literals of the placeholder grammar  *)
(* ("[Image:", "alt=", ",", "src=", "]", the quote, the backslash, " ")    *)
(* and words.  A locator, an alt text, an analysis are symbol sequences.   *)
(***************************************************************************)
EXTENDS Integers, Sequences, FiniteSets, TLC

VARIABLES
    \* ---- splicer run: _enrich_content_with_figures(text, figures)
    kind,        \* "html" | "pdf": which parser's splicer runs
    doc,         \* the elements the raw text was written from
    figures,     \* the list[Figure] handed to the splicer
    missing,     \* figure files that no longer exist on disk (PDF path)
    enriched,    \* the splicer's return value (NoneV before it ran)
    pcS,         \* "input" | "done"
    \* ---- compressor run: Figure._resize_if_needed(image_bytes)
    image,       \* the input: its byte length, pixel size, detail, decodability
    width,       \* img.width of the working image
    height,      \* img.height of the working image
    quality,     \* JPEG quality of the next encode
    iteration,   \* loop counter
    buf,         \* the latest encode: [w, h, q |-> its settings,
                 \*   size |-> len(buffer.getvalue())]  (NoEncode: none yet)
    prev_buf,    \* the encode before it (NoEncode: none)
    encodes,     \* number of img.save calls so far
    shrinks,     \* number of img.resize calls so far
    ret,         \* the returned bytes: [same |-> is the input, len |-> length]
    pcC,         \* "start" | "loop" | "returned" | "raised_floor"
                 \* | "raised_iterations" | "raised_open"
    \* ---- artifact store: one ToolStateManager
    parse_results,      \* _parse_results: dict hash -> ParseResult
    summary_results,    \* _summary_results: dict hash -> SummaryResult
    last_parse_hash,    \* _last_parse_hash ("None" when unset)
    last_summary_hash,  \* _last_summary_hash ("None" when unset)
    message_sent,       \* _message_sent
    call,               \* the latest call on the store: [op, arg, val, out]
    prev_call,          \* the call before it
    returned,           \* the hashes store_parse_result returned, per url
    stored,             \* the urls stored since the store was created or cleared
    ops,                \* number of calls made so far
    \* ---- one parse call: HTMLParser.parse / PdfParser.parse (kind, doc as above;
    \*      figures and enriched are parse's figures and content.text)
    outcome,       \* per image locator, how its analysis goes on every attempt
    meta_outcome,  \* how the metadata extraction goes
    coord_fails,   \* the coordinator itself raises before it launches a task
    tasks,         \* the Figure.from_llm tasks the coordinator gathers
    content,       \* the Content.from_llm task: [attempts, st]
    invoked,       \* figure_analyser.ainvoke calls made, per locator
    completion,    \* task indexes in the order the tasks settled
    coord,         \* "none" | "running" | "returned" | "raised"
    coord_result,  \* the list the coordinator returned
    pcP,           \* "start" | "gather" | "returned" | "raised" | "stored"
    \* ---- concurrent requests, each inside its own tool_state_context
    instances,     \* every ToolStateManager constructed so far
    ctx,           \* per request, the value of _state_context in its execution
                   \* context: an index into instances, 0 when unset
    shadow,        \* per request, the store its own calls alone would have made
    req_pc,        \* per request: "new" | "in" | "out" | "done"
    req_ops,       \* per request, the calls made so far
    last_ret,      \* the latest call: [req, op, got, want]
    \* ---- send_slack_message tool calls on the store above
    send_pc,         \* per call: "new" | "sending" | "posted" | "done" | "raised"
    send_saw,        \* per call, what state_manager.message_sent read at its start
    send_delivered,  \* per call, the Slack deliveries it made
    send_ret,        \* per call, the tool's return value
    \* ---- units of work under RetryableBase._retry, running concurrently
    retry_fails,     \* per unit, the attempts on which its service call fails
    retry_attempts,  \* per unit, the attempts made so far
    retry_waits,     \* per unit, the sleeps before its retries, in seconds
    retry_st,        \* per unit: "calling" | "sleeping" | "ok" | "raised"
    \* ---- one YouTubeParser.parse(url, languages) call
    yt_in,       \* the call and its world: [video_id, languages, info, available,
                 \*   meta_outcome]
    yt_meta,     \* what the _get_metadata thread returned (NoMeta: still running)
    yt_text,     \* what the _get_transcript thread did: [st, text, msg]
    yt_content,  \* the Content.from_llm task: [attempts, st]
    yt_raw,      \* the raw_title, raw_authors, raw_published_date handed to the
                 \*   metadata extractor
    yt_result,   \* the ParseResult returned
    yt_error,    \* the exception parse raised
    yt_pc,       \* "gather" | "content" | "returned" | "raised"
    \* ---- one Content.from_llm attempt after the metadata extractor answered
    md_raw,      \* the extractor's response: per field [t, v], t "absent" | "str"
    md_out,      \* the Content built from it: [st, f] (st "Content" |
                 \*   "ValidationError"), f per field [t, v], t "none" | "str" | "list"
    md_pc,       \* "answered" | "done"
    \* ---- PdfParser._run_upstage_pipeline runs, one after the other
    cache_file,  \* per url, parsed.json in the url's docs directory: [st, elements],
                 \*   st "absent" | "json" | "truncated"
    up_run,      \* the latest run: [url, before, read, calls, elements, wrote, st]
    up_runs,     \* number of runs started
    \* ---- the agent's tools called in one request, on the store above
    parse_pc,    \* per parse_* call: "new" | "parsing" | "done" | "raised"
    parse_url,   \* per parse_* call: its url argument
    gen_pc,      \* per generate_summary call: "new" | "summarising" | "done" | "raised"
    gen_read,    \* per generate_summary call: the parse result it read
    gen_hash,    \* per generate_summary call: the hash that parse result was stored under
    gen_key,     \* per generate_summary call: the summary hash it stored under
    tool_sent,   \* what send_slack_message handed to the broadcast: [parse, summary]
    \* ---- tool_state_context blocks nested in one execution context
    cv_value,    \* _state_context in this context: 0 (unset) or the store's number
    cv_frames,   \* the open with blocks, outermost first: [store, token]
    cv_made,     \* number of ToolStateManager instances constructed
    cv_exited,   \* the stores whose with block was left
    cv_marked,   \* the stores whose delivered flag is set
    cv_raising,  \* "no" | "body" (the body raised) | "left" (a block was left by it)
    cv_last,     \* the last state_manager call: [op, at, got]
    \* ---- lambda handler invocations that carry one event id
    ddb_item,    \* the deduplication table holds an item for the event id
    dd_pc,       \* per invocation: "new" | "got" | "returned" | "done"
    dd_ret,      \* per invocation: what is_duplicate_event returned
    dd_failed,   \* per invocation: a DynamoDB call raised
    rt_invoked   \* number of invoke_agentcore_runtime calls

spliceVars == <<kind, doc, figures, missing, enriched, pcS>>
compVars == <<image, width, height, quality, iteration, buf, prev_buf,
              encodes, shrinks, ret, pcC>>
storeVars == <<parse_results, summary_results, last_parse_hash,
               last_summary_hash, message_sent, call, prev_call, returned,
               stored, ops>>
parseVars == <<outcome, meta_outcome, coord_fails, tasks, content, invoked,
               completion, coord, coord_result, pcP>>
reqVars == <<instances, ctx, shadow, req_pc, req_ops, last_ret>>
coreVars == <<spliceVars, compVars, storeVars, parseVars>>
sendVars == <<send_pc, send_saw, send_delivered, send_ret>>
retryVars == <<retry_fails, retry_attempts, retry_waits, retry_st>>
ytVars == <<yt_in, yt_meta, yt_text, yt_content, yt_raw, yt_result, yt_error, yt_pc>>
mdVars == <<md_raw, md_out, md_pc>>
cacheVars == <<cache_file, up_run, up_runs>>
toolVars == <<parse_pc, parse_url, gen_pc, gen_read, gen_hash, gen_key, tool_sent>>
scopeVars == <<cv_value, cv_frames, cv_made, cv_exited, cv_marked, cv_raising, cv_last>>
dedupVars == <<ddb_item, dd_pc, dd_ret, dd_failed, rt_invoked>>
restVars == <<reqVars, sendVars, retryVars, ytVars, mdVars, cacheVars, toolVars, scopeVars, dedupVars>>
exceptReq == <<coreVars, sendVars, retryVars, ytVars, mdVars, cacheVars, toolVars, scopeVars, dedupVars>>
exceptSendStore == <<spliceVars, compVars, parseVars, reqVars, retryVars, ytVars, mdVars, cacheVars, toolVars, scopeVars, dedupVars>>
exceptRetry == <<coreVars, reqVars, sendVars, ytVars, mdVars, cacheVars, toolVars, scopeVars, dedupVars>>
exceptYoutube == <<coreVars, reqVars, sendVars, retryVars, mdVars, cacheVars, toolVars, scopeVars, dedupVars>>
exceptMeta == <<coreVars, reqVars, sendVars, retryVars, ytVars, cacheVars, toolVars, scopeVars, dedupVars>>
exceptCache == <<coreVars, reqVars, sendVars, retryVars, ytVars, mdVars, toolVars, scopeVars, dedupVars>>
exceptToolStore == <<spliceVars, compVars, parseVars, reqVars, sendVars, retryVars, ytVars, mdVars, cacheVars, scopeVars, dedupVars>>
exceptScope == <<coreVars, reqVars, sendVars, retryVars, ytVars, mdVars, cacheVars, toolVars, dedupVars>>
exceptDedup == <<coreVars, reqVars, sendVars, retryVars, ytVars, mdVars, cacheVars, toolVars, scopeVars>>
vars == <<coreVars, restVars>>

(***************************************************************************)
(* Symbols and optional values                                             *)
(***************************************************************************)
OPEN    == "[Image:"
ALT     == "alt="
COMMA   == ","
SRC     == "src="
CLOSE   == "]"
QUOTE   == "\""
BSLASH  == "\\"
SP      == " "
NL      == "\n"
CAPTION == "caption="

\* \s matches the blank and the newline; "." matches anything but the newline
IsWs(c) == c \in {SP, NL}

\* Python None for a str | None field (a text is a sequence of symbols)
NoneV == <<"<None>">>

\* Python truthiness of a str | None value: None and "" are falsy
Truthy(x) == x # NoneV /\ x # <<>>

Min(S) == CHOOSE x \in S : \A y \in S : x <= y

RECURSIVE Concat(_)
Concat(ss) == IF ss = <<>> THEN <<>> ELSE Head(ss) \o Concat(Tail(ss))

\* sep.join(parts)
RECURSIVE Join(_, _)
Join(sep, parts) ==
    IF parts = <<>> THEN <<>>
    ELSE IF Len(parts) = 1 THEN Head(parts)
    ELSE Head(parts) \o sep \o Join(sep, Tail(parts))

\* str.strip(): drop leading and trailing whitespace
RECURSIVE LStrip(_)
LStrip(s) == IF s # <<>> /\ IsWs(Head(s)) THEN LStrip(Tail(s)) ELSE s
RECURSIVE RStrip(_)
RStrip(s) ==
    IF s # <<>> /\ IsWs(s[Len(s)]) THEN RStrip(SubSeq(s, 1, Len(s) - 1)) ELSE s
Strip(s) == LStrip(RStrip(s))

\* str.replace('"', '\\"')
RECURSIVE EscapeQuotes(_)
EscapeQuotes(s) ==
    IF s = <<>> THEN <<>>
    ELSE (IF Head(s) = QUOTE THEN <<BSLASH, QUOTE>> ELSE <<Head(s)>>)
         \o EscapeQuotes(Tail(s))

(***************************************************************************)
(* The placeholder pattern  \[Image:\s*alt=(.*?),\s*src=(.*?)\]            *)
(***************************************************************************)
\* \s* from position p: the first position at or after p that is not whitespace
RECURSIVE SkipWs(_, _)
SkipWs(s, p) == IF p <= Len(s) /\ IsWs(s[p]) THEN SkipWs(s, p + 1) ELSE p

\* (.*?) can cover s[a..b]: no newline in it
Dots(s, a, b) == \A x \in a..b : s[x] # NL

\* ends k of the lazy src group opened at position q + 1
SrcEnds(s, q) == { k \in (q + 1)..Len(s) : s[k] = CLOSE /\ Dots(s, q + 1, k - 1) }

\* positions j where ",\s*src=(.*?)\]" matches: the lazy alt group may end at j
AltEnds(s, a) ==
    { j \in a..Len(s) :
        /\ s[j] = COMMA
        /\ Dots(s, a, j - 1)
        /\ LET q == SkipWs(s, j + 1)
           IN  /\ q <= Len(s)
               /\ s[q] = SRC
               /\ SrcEnds(s, q) # {} }

\* does the pattern match with its first symbol at position i
MatchesAt(s, i) ==
    /\ i <= Len(s)
    /\ s[i] = OPEN
    /\ LET p == SkipWs(s, i + 1)
       IN  /\ p <= Len(s)
           /\ s[p] = ALT
           /\ AltEnds(s, p + 1) # {}

\* the match at i: its end and its two groups (lazy: the first end that works)
MatchAt(s, i) ==
    LET p == SkipWs(s, i + 1)
        j == Min(AltEnds(s, p + 1))
        q == SkipWs(s, j + 1)
        k == Min(SrcEnds(s, q))
    IN  [ first |-> i,
          last  |-> k,
          g0    |-> SubSeq(s, i, k),
          g1    |-> SubSeq(s, p + 1, j - 1),
          g2    |-> SubSeq(s, q + 1, k - 1) ]

\* re.finditer(pattern, s) from position i: leftmost, non-overlapping matches
RECURSIVE FindAll(_, _)
FindAll(s, i) ==
    IF i > Len(s) THEN <<>>
    ELSE IF MatchesAt(s, i)
         THEN <<MatchAt(s, i)>> \o FindAll(s, MatchAt(s, i).last + 1)
         ELSE FindAll(s, i + 1)

(***************************************************************************)
(* Figure (shared/models.py) and the two splicers                          *)
(***************************************************************************)
Figure(id, p, cap, an) ==
    [figure_id |-> id, path |-> p, caption |-> cap, analysis |-> an]

\* f'[Image: alt="{alt_text}", src="{path}", caption="{analysis}"]'
EnrichedToken(alt_text, p, analysis_text) ==
    <<OPEN, SP, ALT, QUOTE>> \o alt_text \o <<QUOTE, COMMA, SP, SRC, QUOTE>>
    \o p \o <<QUOTE, COMMA, SP, CAPTION, QUOTE>> \o analysis_text
    \o <<QUOTE, CLOSE>>

\* (alt_value or fig.caption or "").replace('"', '\\"')
AltText(alt_value, fig) ==
    EscapeQuotes(IF Truthy(alt_value) THEN alt_value
                 ELSE IF Truthy(fig.caption) THEN fig.caption ELSE <<>>)

\* a dict built by a comprehension over figs: the last figure with the key wins
DictHas(figs, Key(_), k) == \E n \in 1..Len(figs) : Key(figs[n]) = k
DictGet(figs, Key(_), k) ==
    figs[CHOOSE n \in 1..Len(figs) :
            /\ Key(figs[n]) = k
            /\ \A m \in (n + 1)..Len(figs) : Key(figs[m]) # k]

\* the text from position i on, with each match of ms replaced by its entry in reps
RECURSIVE Rebuild(_, _, _, _)
Rebuild(s, i, ms, reps) ==
    IF ms = <<>> THEN SubSeq(s, i, Len(s))
    ELSE SubSeq(s, i, Head(ms).first - 1) \o Head(reps)
         \o Rebuild(s, Head(ms).last + 1, Tail(ms), Tail(reps))

\* re.sub(pattern, repl, text)
ReSub(s, Repl(_)) ==
    LET ms == FindAll(s, 1)
    IN  Rebuild(s, 1, ms, [n \in 1..Len(ms) |-> Repl(ms[n])])

\* a splicer that keys the figures by their id instead of their path
HtmlKeyById(fig) == fig.figure_id

\* HTMLParser._enrich_content_with_figures: figures are keyed by str(fig.path)
HtmlKey(fig) == fig.path

\* a replacer that leaves the raw token in place when it has no usable figure
HtmlReplKeepRaw(m, figs) ==
    LET alt_value == Strip(m.g1)
        src_value == Strip(m.g2)
    IN  IF DictHas(figs, HtmlKey, src_value)
           /\ Truthy(DictGet(figs, HtmlKey, src_value).analysis)
        THEN LET matched_figure == DictGet(figs, HtmlKey, src_value)
             IN  EnrichedToken(AltText(alt_value, matched_figure),
                               matched_figure.path,
                               EscapeQuotes(matched_figure.analysis))
        ELSE m.g0

\* the replace_placeholder callback of HTMLParser._enrich_content_with_figures
HtmlRepl(m, figs) ==
    LET alt_value == Strip(m.g1)
        src_value == Strip(m.g2)
    IN  IF DictHas(figs, HtmlKey, src_value)
           /\ Truthy(DictGet(figs, HtmlKey, src_value).analysis)
        THEN LET matched_figure == DictGet(figs, HtmlKey, src_value)
             IN  EnrichedToken(AltText(alt_value, matched_figure),
                               matched_figure.path,
                               EscapeQuotes(matched_figure.analysis))
        ELSE <<>>
HtmlEnrich(text, figs) ==
    LET Empty(m) == <<>>
        Repl(m)  == HtmlRepl(m, figs)
    IN  IF figs = <<>> THEN ReSub(text, Empty) ELSE ReSub(text, Repl)

\* Path(p).name: the last component of a path
PathName(p) == <<p[Len(p)]>>

\* PdfParser._enrich_content_with_figures: figures are keyed by the file name,
\* and a figure whose file is gone is dropped
PdfKey(fig) == PathName(fig.path)
PdfRepl(m, figs, gone) ==
    LET alt      == Strip(m.g1)
        src_name == Strip(m.g2)
    IN  IF DictHas(figs, PdfKey, src_name)
        THEN LET matched_fig == DictGet(figs, PdfKey, src_name)
             IN  IF matched_fig.path \in gone THEN <<>>
                 ELSE IF Truthy(matched_fig.analysis)
                      THEN EnrichedToken(AltText(alt, matched_fig),
                                         matched_fig.path,
                                         EscapeQuotes(matched_fig.analysis))
                      ELSE <<>>
        ELSE <<>>
PdfEnrich(text, figs, gone) ==
    LET Empty(m) == <<>>
        Repl(m)  == PdfRepl(m, figs, gone)
    IN  IF figs = <<>> THEN ReSub(text, Empty) ELSE ReSub(text, Repl)

(***************************************************************************)
(* Raw text as the parsers write it                                        *)
(***************************************************************************)
\* a document element: a run of text (alt holds its words) or an image
TextEl(w)       == [t |-> "txt", alt |-> w, src |-> <<>>]
ImgEl(alt, src) == [t |-> "img", alt |-> alt, src |-> src]
IsImg(e) == e.t = "img"

\* f"[Image: alt={alt}, src={src}]"
TokenText(alt, src) == <<OPEN, SP, ALT>> \o alt \o <<COMMA, SP, SRC>> \o src \o <<CLOSE>>

ElementText(e) == IF IsImg(e) THEN TokenText(e.alt, e.src) ELSE e.alt

\* re.sub(r"\s+", " ", text)
RECURSIVE CollapseWs(_)
CollapseWs(s) ==
    IF s = <<>> THEN <<>>
    ELSE IF IsWs(Head(s)) THEN <<SP>> \o CollapseWs(LStrip(s))
    ELSE <<Head(s)>> \o CollapseWs(Tail(s))

\* HTMLParser: children joined by " ", whitespace collapsed, stripped
HtmlRawText(d) ==
    Strip(CollapseWs(Join(<<SP>>, [n \in 1..Len(d) |-> ElementText(d[n])])))

\* PdfParser: "\n\n".join(text_parts)
PdfRawText(d) == Join(<<NL, NL>>, [n \in 1..Len(d) |-> ElementText(d[n])])

RawText(k, d) == IF k = "html" THEN HtmlRawText(d) ELSE PdfRawText(d)

\* the splicer of parser k
Enrich(k, text, figs, gone) ==
    IF k = "html" THEN HtmlEnrich(text, figs) ELSE PdfEnrich(text, figs, gone)

(***************************************************************************)
(* Components that take no part in a run stay in these states              *)
(***************************************************************************)
NoImage == [len |-> 0, w |-> 0, h |-> 0, detail |-> 0, decodable |-> FALSE]
NoBytes == [same |-> FALSE, len |-> 0]
NoEncode == [w |-> 0, h |-> 0, q |-> 0, size |-> 0]

IdleSplice ==
    /\ kind = "html" /\ doc = <<>> /\ figures = <<>> /\ missing = {}
    /\ enriched = NoneV /\ pcS = "idle"

IdleCompress ==
    /\ image = NoImage /\ width = 0 /\ height = 0 /\ quality = 0
    /\ iteration = 0 /\ buf = NoEncode /\ prev_buf = NoEncode
    /\ encodes = 0 /\ shrinks = 0
    /\ ret = NoBytes /\ pcC = "idle"

None == "None"
NoCall == [op |-> "none", arg |-> None, val |-> None, out |-> None]
Urls == {"http://x/1", "http://x/2", "http://x/3"}

IdleStore ==
    /\ parse_results = <<>> /\ summary_results = <<>>
    /\ last_parse_hash = None /\ last_summary_hash = None
    /\ message_sent = FALSE /\ call = NoCall /\ prev_call = NoCall
    /\ returned = [u \in Urls |-> {}] /\ stored = {} /\ ops = 0

LocSeq == <<"a.png", "b.png">>
Locs == {LocSeq[n] : n \in 1..Len(LocSeq)}
NoTask == [attempts |-> 0, st |-> "none"]

IdleParse ==
    /\ outcome = [l \in Locs |-> "ok"] /\ meta_outcome = "ok"
    /\ coord_fails = FALSE /\ tasks = <<>> /\ content = NoTask
    /\ invoked = [l \in Locs |-> 0] /\ completion = <<>>
    /\ coord = "none" /\ coord_result = <<>> /\ pcP = "idle"

Requests == {1, 2}
NoRet == [req |-> 0, op |-> "none", got |-> None, want |-> None]

IdleRequests ==
    /\ instances = <<>> /\ ctx = [r \in Requests |-> 0]
    /\ shadow = [r \in Requests |-> None]
    /\ req_pc = [r \in Requests |-> "idle"]
    /\ req_ops = [r \in Requests |-> 0] /\ last_ret = NoRet

SendCalls == {1, 2}

IdleSend ==
    /\ send_pc = [c \in SendCalls |-> "idle"]
    /\ send_saw = [c \in SendCalls |-> None]
    /\ send_delivered = [c \in SendCalls |-> 0]
    /\ send_ret = [c \in SendCalls |-> None]

Units == {"figure_analysing", "content_parsing"}

IdleRetry ==
    /\ retry_fails = [u \in Units |-> 0]
    /\ retry_attempts = [u \in Units |-> 0]
    /\ retry_waits = [u \in Units |-> <<>>]
    /\ retry_st = [u \in Units |-> "idle"]

NoMeta == [st |-> "running", title |-> None, authors |-> None,
           published_date |-> None, metadata |-> <<>>]
NoText == [st |-> "running", text |-> None, msg |-> None]
NoRaw == [raw_title |-> None, raw_authors |-> None, raw_published_date |-> None]
NoResult == [content |-> <<>>, figures |-> <<>>]

IdleYoutube ==
    /\ yt_in = [video_id |-> None, languages |-> <<>>,
                info |-> [st |-> "none", keys |-> {}], available |-> {},
                transcripts |-> "ok", meta_outcome |-> "ok"]
    /\ yt_meta = NoMeta /\ yt_text = NoText /\ yt_content = NoTask
    /\ yt_raw = NoRaw /\ yt_result = NoResult /\ yt_error = None
    /\ yt_pc = "idle"

MetaFields == {"title", "authors", "affiliations", "published_date",
               "categories", "keywords"}
AbsentV == [t |-> "absent", v |-> <<>>]
NoContent == [st |-> "none", f |-> [x \in MetaFields |-> AbsentV]]

IdleMeta ==
    /\ md_raw = [x \in MetaFields |-> AbsentV]
    /\ md_out = NoContent
    /\ md_pc = "idle"

PdfUrls == {"http://x/a.pdf", "http://y/a.pdf"}
NoFile == [st |-> "absent", elements |-> None]
NoRun == [url |-> None, before |-> NoFile, read |-> "none", calls |-> 0,
          elements |-> None, wrote |-> "none", st |-> "idle"]

IdleCache ==
    /\ cache_file = [u \in PdfUrls |-> NoFile]
    /\ up_run = NoRun
    /\ up_runs = 0

ParseCalls == {1, 2}
GenCalls == {1, 2}
NoDelivery == [parse |-> None, summary |-> None]

IdleTools ==
    /\ parse_pc = [p \in ParseCalls |-> "idle"]
    /\ parse_url = [p \in ParseCalls |-> None]
    /\ gen_pc = [g \in GenCalls |-> "idle"]
    /\ gen_read = [g \in GenCalls |-> None]
    /\ gen_hash = [g \in GenCalls |-> None]
    /\ gen_key = [g \in GenCalls |-> None]
    /\ tool_sent = NoDelivery

NoScopeCall == [op |-> "none", at |-> 0, got |-> None]

IdleScope ==
    /\ cv_value = 0 /\ cv_frames = <<>> /\ cv_made = 0
    /\ cv_exited = {} /\ cv_marked = {} /\ cv_raising = "no"
    /\ cv_last = NoScopeCall

Invocations == {1, 2, 3}

IdleDedup ==
    /\ ddb_item = FALSE
    /\ dd_pc = [h \in Invocations |-> "idle"]
    /\ dd_ret = [h \in Invocations |-> None]
    /\ dd_failed = [h \in Invocations |-> FALSE]
    /\ rt_invoked = 0

IdleCore == IdleSplice /\ IdleCompress /\ IdleStore /\ IdleParse
IdleRest == IdleRequests /\ IdleSend /\ IdleRetry /\ IdleYoutube /\ IdleMeta /\ IdleCache /\ IdleTools /\ IdleScope /\ IdleDedup
IdleExceptReq == IdleCore /\ IdleSend /\ IdleRetry /\ IdleYoutube /\ IdleMeta /\ IdleCache /\ IdleTools /\ IdleScope /\ IdleDedup
IdleExceptSendStore == IdleSplice /\ IdleCompress /\ IdleParse /\ IdleRequests /\ IdleRetry /\ IdleYoutube /\ IdleMeta /\ IdleCache /\ IdleTools /\ IdleScope /\ IdleDedup
IdleExceptDedup == IdleCore /\ IdleRequests /\ IdleSend /\ IdleRetry /\ IdleYoutube /\ IdleMeta /\ IdleCache /\ IdleTools /\ IdleScope
IdleExceptScope == IdleCore /\ IdleRequests /\ IdleSend /\ IdleRetry /\ IdleYoutube /\ IdleMeta /\ IdleCache /\ IdleTools /\ IdleDedup
IdleExceptToolStore == IdleSplice /\ IdleCompress /\ IdleParse /\ IdleRequests /\ IdleSend /\ IdleRetry /\ IdleYoutube /\ IdleMeta /\ IdleCache /\ IdleScope /\ IdleDedup
IdleExceptCache == IdleCore /\ IdleRequests /\ IdleSend /\ IdleRetry /\ IdleYoutube /\ IdleMeta /\ IdleTools /\ IdleScope /\ IdleDedup
IdleExceptMeta == IdleCore /\ IdleRequests /\ IdleSend /\ IdleRetry /\ IdleYoutube /\ IdleCache /\ IdleTools /\ IdleScope /\ IdleDedup
IdleExceptYoutube == IdleCore /\ IdleRequests /\ IdleSend /\ IdleRetry /\ IdleMeta /\ IdleCache /\ IdleTools /\ IdleScope /\ IdleDedup
IdleExceptRetry == IdleCore /\ IdleRequests /\ IdleSend /\ IdleYoutube /\ IdleMeta /\ IdleCache /\ IdleTools /\ IdleScope /\ IdleDedup

(***************************************************************************)
(* Inputs of the splicer runs                                              *)
(***************************************************************************)
MaxDoc == 2

\* the locator of image l as parser k writes it into a token, and the path of
\* its Figure: the URL on the HTML path; the file name and the file on the PDF path
TokenSrc(k, l) == IF k = "html" THEN <<"http://x/", l>> ELSE <<l>>
FigPath(k, l)  == IF k = "html" THEN <<"http://x/", l>> ELSE <<"/figures/", l>>

Alts == { <<>>, <<"cat">>, <<QUOTE>>, <<COMMA, SRC, "x">> }
Elements(k) ==
    {TextEl(<<"Hello">>)} \cup {ImgEl(a, TokenSrc(k, l)) : a \in Alts, l \in Locs}

SeqsUpTo(S, n) == UNION { [1..m -> S] : m \in 0..n }

\* what the figure list holds for one locator
FigOpts == {"absent", "null", "empty", "ok", "okcap"}
FigFor(k, l, o) ==
    IF o = "absent" THEN <<>>
    ELSE <<Figure(<<"fig-", l>>, FigPath(k, l),
                  IF o = "okcap" THEN <<"cap">> ELSE NoneV,
                  CASE o = "null"  -> NoneV
                    [] o = "empty" -> <<>>
                    [] o = "ok"    -> <<"A", QUOTE, "photo">>
                    [] OTHER       -> <<"chart">>)>>
FigsOf(k, opt) == Concat([n \in 1..Len(LocSeq) |-> FigFor(k, LocSeq[n], opt[LocSeq[n]])])

InitSplice ==
    /\ IdleRest
    /\ IdleCompress
    /\ IdleStore
    /\ IdleParse
    /\ kind \in {"html", "pdf"}
    /\ doc \in SeqsUpTo(Elements(kind), MaxDoc)
    /\ \E opt \in [Locs -> FigOpts] : figures = FigsOf(kind, opt)
    /\ missing \in SUBSET {figures[n].path : n \in 1..Len(figures)}
    /\ kind = "html" => missing = {}
    /\ enriched = NoneV
    /\ pcS = "input"

\* one call of _enrich_content_with_figures
EnrichCall ==
    /\ pcS = "input"
    /\ enriched' = Enrich(kind, RawText(kind, doc), figures, missing)
    /\ pcS' = "done"
    /\ UNCHANGED <<kind, doc, figures, missing>>
    /\ UNCHANGED <<compVars, storeVars, parseVars, restVars>>

NextSplice == EnrichCall
SpecSplice == InitSplice /\ [][NextSplice]_vars

(***************************************************************************)
(* Splicer properties                                                      *)
(***************************************************************************)
Imgs(d) == SelectSeq(d, IsImg)
Count(s, P(_)) == Cardinality({n \in 1..Len(s) : P(s[n])})
Has(s, x) == \E n \in 1..Len(s) : s[n] = x

\* the raw text holds exactly the tokens of d's images: the pattern recovers
\* every token's alt and locator, in order
WellFormed(k, d) ==
    LET ms == FindAll(RawText(k, d), 1)
        im == Imgs(d)
    IN  /\ Len(ms) = Len(im)
        /\ \A n \in 1..Len(ms) :
              Strip(ms[n].g1) = im[n].alt /\ Strip(ms[n].g2) = im[n].src

\* the locator a Figure is looked up by
LocatorOf(k, fig) == IF k = "html" THEN fig.path ELSE PathName(fig.path)

\* figures whose sourceLocator is src
Matching(k, figs, src) == {n \in 1..Len(figs) : LocatorOf(k, figs[n]) = src}

\* a match of the pattern that is an enriched token / a raw placeholder
IsEnrichedMatch(m) == m.g1 # <<>> /\ Head(m.g1) = QUOTE /\ Has(m.g2, CAPTION)
NEnriched(text) == LET ms == FindAll(text, 1) IN Count(ms, IsEnrichedMatch)
NRaw(text) == LET ms == FindAll(text, 1) IN Len(ms) - Count(ms, IsEnrichedMatch)

\* every token's locator has a Figure with a non-null analysis
AllAnalysed(k, d, figs) ==
    \A n \in 1..Len(d) : IsImg(d[n]) =>
        \E f \in Matching(k, figs, d[n].src) : figs[f].analysis # NoneV

\* ... with a non-empty analysis, whose file (PDF path) still exists
AllUsable(k, d, figs, gone) ==
    \A n \in 1..Len(d) : IsImg(d[n]) =>
        \E f \in Matching(k, figs, d[n].src) :
            Truthy(figs[f].analysis) /\ figs[f].path \notin gone

RoundTrip ==
    /\ NEnriched(enriched) = Len(Imgs(doc))
    /\ NRaw(enriched) = 0

Droppable(k, e, figs) ==
    \A f \in Matching(k, figs, e.src) : figs[f].analysis = NoneV

\* the enriched token of image element e, built from its (only) usable Figure
TokenFor(k, e, figs) ==
    LET f == CHOOSE f \in Matching(k, figs, e.src) : TRUE
    IN  EnrichedToken(AltText(e.alt, figs[f]), figs[f].path,
                      EscapeQuotes(figs[f].analysis))

\* the text of d with the images of keep enriched and every other image deleted
Kept(k, d, figs, keep) ==
    Join(IF k = "html" THEN <<SP>> ELSE <<NL, NL>>,
         [n \in 1..Len(d) |->
            IF ~IsImg(d[n]) THEN d[n].alt
            ELSE IF n \in keep THEN TokenFor(k, d[n], figs) ELSE <<>>])

\* C5: a token with no matching Figure, or whose Figure has a null analysis, is
\* replaced by the empty string and nothing is inserted for it; with an empty
\* figure list every token is stripped; the splicer always returns a text
C5_GracefulDrop ==
    pcS = "done" =>
        /\ enriched # NoneV
        /\ figures = <<>> => FindAll(enriched, 1) = <<>>
        /\ WellFormed(kind, doc) =>
              \E keep \in SUBSET {n \in 1..Len(doc) :
                                    IsImg(doc[n]) /\ ~Droppable(kind, doc[n], figures)} :
                  enriched = Kept(kind, doc, figures, keep)

C5_Witness ==
    /\ pcS = "done"
    /\ WellFormed(kind, doc)
    /\ Len(doc) = 2
    /\ IsImg(doc[1]) /\ Matching(kind, figures, doc[1].src) = {}
    /\ IsImg(doc[2]) /\ \E f \in Matching(kind, figures, doc[2].src) :
                            figures[f].analysis = NoneV
    /\ Len(figures) = 1
    /\ enriched = (IF kind = "html" THEN <<SP>> ELSE <<NL, NL>>)

(***************************************************************************)
(* Image size-budget compressor: Figure._resize_if_needed                  *)
(***************************************************************************)
DEFAULT_RESIZE_QUALITY == 85
MAX_IMAGE_SIZE_BYTES == 5242880
max_iterations == 20
QUALITY_FLOOR == 10
QUALITY_STEP == 10
MIN_DIMENSION == 100

\* a shrink to one half
ScaleHalf(x) == x \div 2
\* int(x * 0.8)
Scale(x) == (x * 4) \div 5

\* len of img.save(buffer, format="JPEG", quality=q) for a w x h image: the
\* encoder is deterministic; its output grows with the pixel count, with the
\* quality and with the detail of the picture (detail/10 bytes per pixel at
\* quality 85)
JpegSize(w, h, q, detail) == ((w * h) \div 850) * q * detail

\* a loop that runs one iteration more
LoopGuardOffByOne == iteration <= max_iterations
\* while iteration < max_iterations
LoopGuard == iteration < max_iterations

\* if len(buffer.getvalue()) <= MAX_IMAGE_SIZE_BYTES
Fits(n) == n <= MAX_IMAGE_SIZE_BYTES

\* a floor test that needs both sides below the floor
BelowFloorBoth(new_width, new_height) ==
    new_width < MIN_DIMENSION /\ new_height < MIN_DIMENSION
\* if new_width < 100 or new_height < 100
BelowFloor(new_width, new_height) ==
    new_width < MIN_DIMENSION \/ new_height < MIN_DIMENSION

\* a step that raises the quality
StepUp(q) == q + QUALITY_STEP
\* quality -= 10
StepDown(q) == q - QUALITY_STEP

Images ==
    { [len |-> n, w |-> d[1], h |-> d[2], detail |-> c, decodable |-> b] :
        n \in {MAX_IMAGE_SIZE_BYTES - 1, MAX_IMAGE_SIZE_BYTES,
               MAX_IMAGE_SIZE_BYTES + 1, 3 * MAX_IMAGE_SIZE_BYTES},
        d \in { <<4000, 3000>>, <<9000, 9000>>, <<16000, 12000>>,
                <<120, 600000>>, <<150, 800000>>, <<90, 900000>> },
        c \in {1, 4, 15},
        b \in BOOLEAN }

InitCompress ==
    /\ IdleRest
    /\ IdleSplice
    /\ IdleStore
    /\ IdleParse
    /\ image \in Images
    /\ width = image.w /\ height = image.h
    /\ quality = 0 /\ iteration = 0 /\ buf = NoEncode /\ prev_buf = NoEncode
    /\ encodes = 0 /\ shrinks = 0 /\ ret = NoBytes
    /\ pcC = "start"

\* lines 92-93: an input within the budget is returned as it is
ReturnUnchanged ==
    /\ pcC = "start"
    /\ Fits(image.len)
    /\ ret' = [same |-> TRUE, len |-> image.len]
    /\ pcC' = "returned"
    /\ UNCHANGED <<image, width, height, quality, iteration, buf, prev_buf,
                   encodes, shrinks>>
    /\ UNCHANGED <<spliceVars, storeVars, parseVars, restVars>>

\* lines 100-106: the image is opened and the loop starts at the default quality
OpenImage ==
    /\ pcC = "start"
    /\ ~Fits(image.len)
    /\ image.decodable
    /\ quality' = DEFAULT_RESIZE_QUALITY
    /\ iteration' = 0
    /\ pcC' = "loop"
    /\ UNCHANGED <<image, width, height, buf, prev_buf, encodes, shrinks, ret>>
    /\ UNCHANGED <<spliceVars, storeVars, parseVars, restVars>>

\* lines 141-147: Image.open fails; the error is raised as FigureParseError
OpenFails ==
    /\ pcC = "start"
    /\ ~Fits(image.len)
    /\ ~image.decodable
    /\ pcC' = "raised_open"
    /\ UNCHANGED <<image, width, height, quality, iteration, buf, prev_buf,
                   encodes, shrinks, ret>>
    /\ UNCHANGED <<spliceVars, storeVars, parseVars, restVars>>

\* lines 109-110: the encode every iteration starts with
Encode ==
    /\ pcC = "loop"
    /\ LoopGuard
    /\ buf' = [w |-> width, h |-> height, q |-> quality,
               size |-> JpegSize(width, height, quality, image.detail)]
    /\ prev_buf' = buf
    /\ encodes' = encodes + 1

\* lines 112-119: the candidate fits and is returned
IterReturn ==
    /\ Encode
    /\ Fits(buf'.size)
    /\ ret' = [same |-> FALSE, len |-> buf'.size]
    /\ pcC' = "returned"
    /\ UNCHANGED <<image, width, height, quality, iteration, shrinks>>
    /\ UNCHANGED <<spliceVars, storeVars, parseVars, restVars>>

\* lines 130-133: quality above the floor: step it down
IterStepDown ==
    /\ Encode
    /\ ~Fits(buf'.size)
    /\ ~(quality <= QUALITY_FLOOR)
    /\ quality' = StepDown(quality)
    /\ iteration' = iteration + 1
    /\ UNCHANGED <<image, width, height, shrinks, ret, pcC>>
    /\ UNCHANGED <<spliceVars, storeVars, parseVars, restVars>>

\* lines 121-129, 133: quality at the floor: shrink and restart at the default
IterShrink ==
    /\ Encode
    /\ ~Fits(buf'.size)
    /\ quality <= QUALITY_FLOOR
    /\ ~BelowFloor(Scale(width), Scale(height))
    /\ width' = Scale(width)
    /\ height' = Scale(height)
    /\ quality' = DEFAULT_RESIZE_QUALITY
    /\ shrinks' = shrinks + 1
    /\ iteration' = iteration + 1
    /\ UNCHANGED <<image, ret, pcC>>
    /\ UNCHANGED <<spliceVars, storeVars, parseVars, restVars>>

\* lines 124-127: the shrink would go below the minimum size: raise
IterFloor ==
    /\ Encode
    /\ ~Fits(buf'.size)
    /\ quality <= QUALITY_FLOOR
    /\ BelowFloor(Scale(width), Scale(height))
    /\ pcC' = "raised_floor"
    /\ UNCHANGED <<image, width, height, quality, iteration, shrinks, ret>>
    /\ UNCHANGED <<spliceVars, storeVars, parseVars, restVars>>

\* lines 135-137: the loop ran out of iterations: raise
Exhausted ==
    /\ pcC = "loop"
    /\ ~LoopGuard
    /\ pcC' = "raised_iterations"
    /\ UNCHANGED <<image, width, height, quality, iteration, buf, prev_buf,
                   encodes, shrinks, ret>>
    /\ UNCHANGED <<spliceVars, storeVars, parseVars, restVars>>

NextCompress ==
    \/ ReturnUnchanged
    \/ OpenImage
    \/ OpenFails
    \/ IterReturn
    \/ IterStepDown
    \/ IterShrink
    \/ IterFloor
    \/ Exhausted

SpecCompress == InitCompress /\ [][NextCompress]_vars

(***************************************************************************)
(* Compressor properties                                                   *)
(***************************************************************************)
EndedC == pcC \in {"returned", "raised_floor", "raised_iterations", "raised_open"}
RaisedC == pcC \in {"raised_floor", "raised_iterations", "raised_open"}

\* C7: the run ends within max_iterations encodes; an input over the budget
\* either comes back as bytes within the budget (so smaller than the input) or
\* raises FigureParseError; an input within the budget comes back unchanged
C7_CompressBounded ==
    /\ encodes <= max_iterations
    /\ EndedC \/ ENABLED NextCompress
    /\ (EndedC /\ ~Fits(image.len)) =>
          \/ RaisedC
          \/ /\ pcC = "returned"
             /\ ret.len <= MAX_IMAGE_SIZE_BYTES
             /\ ret.len <= image.len
    /\ (EndedC /\ Fits(image.len)) =>
          /\ pcC = "returned"
          /\ ret = [same |-> TRUE, len |-> image.len]
          /\ encodes = 0

C7_Witness ==
    /\ pcC = "returned"
    /\ ~Fits(image.len)
    /\ encodes = 18
    /\ shrinks = 1
    /\ ret.len < image.len

\* C8 as stated: every encode is no larger than the encode before it
C8_SizeNonIncreasing == encodes >= 2 => buf.size <= prev_buf.size

\* C8 amended: an encode is no larger than the encode before it when both are
\* of the same dimensions (quality stepped down); the encode that follows a
\* shrink is made at the default quality again and may be larger
C8_SizeNonIncreasingPerLevel ==
    (encodes >= 2 /\ buf.w = prev_buf.w /\ buf.h = prev_buf.h) =>
        /\ buf.q = prev_buf.q - QUALITY_STEP
        /\ buf.size <= prev_buf.size

C8_Witness ==
    /\ encodes >= 2
    /\ buf.w = prev_buf.w
    /\ prev_buf.q = DEFAULT_RESIZE_QUALITY
    /\ buf.size < prev_buf.size
    /\ shrinks = 1

\* C9: once the compressor has shrunk the image, no encode and no result is of
\* an image narrower or lower than MIN_DIMENSION; a shrink that would go below
\* it raises instead (and that is the only reason for that error)
C9_DimensionFloor ==
    /\ shrinks > 0 =>
          /\ width >= MIN_DIMENSION /\ height >= MIN_DIMENSION
          /\ encodes > shrinks => (buf.w >= MIN_DIMENSION /\ buf.h >= MIN_DIMENSION)
    /\ pcC = "raised_floor" <=>
          /\ encodes > 0
          /\ buf.q <= QUALITY_FLOOR
          /\ ~Fits(buf.size)
          /\ (Scale(buf.w) < MIN_DIMENSION \/ Scale(buf.h) < MIN_DIMENSION)

C9_Witness ==
    /\ pcC = "raised_floor"
    /\ shrinks = 1
    /\ width = 120
    /\ Scale(width) < MIN_DIMENSION
    /\ Scale(height) >= MIN_DIMENSION

(***************************************************************************)
(* Artifact store: ToolStateManager                                        *)
(***************************************************************************)
MaxOps == 4

ParseResults == {"parse-A", "parse-B"}
SummaryResults == {"summary-A", "summary-B"}

\* a hash that depends on the call, not on the text
GenerateHashSalted(text) ==
    IF ops % 2 = 0 THEN "8f14e45fceea167a" ELSE "c9f0f895fb98ab91"
\* _generate_hash: hashlib.sha256(text.encode()).hexdigest()[:16], a digest of
\* the text alone; it is shorter than the text, so two texts can share it
GenerateHash(text) ==
    CASE text = "http://x/1" -> "8f14e45fceea167a"
      [] text = "http://x/2" -> "c9f0f895fb98ab91"
      [] OTHER               -> "c9f0f895fb98ab91"

ParseHashes == {GenerateHash(u) : u \in Urls}

\* a summary hash that forgets the parse hash
SummaryHashConstant(parse_hash) == "0000000000000000_sum"

\* f"{parse_hash}_sum"
SummaryHash(parse_hash) == parse_hash \o "_sum"

\* an assignment that drops the other keys
PutOnly(dict, key, value) == [k \in {key} |-> value]

\* dict[key] = value
Put(dict, key, value) == [k \in DOMAIN dict \cup {key} |->
                            IF k = key THEN value ELSE dict[k]]

\* an or that ignores its second operand
OrFirst(a, b) == a

\* a or b, for str | None values
Or(a, b) == IF a # None /\ a # "" THEN a ELSE b

Called(op, arg, val, out) ==
    /\ ops < MaxOps
    /\ ops' = ops + 1
    /\ call' = [op |-> op, arg |-> arg, val |-> val, out |-> out]
    /\ prev_call' = call

\* ToolStateManager.store_parse_result(url, result): its effect on the store
store_parse_result(url, result) ==
    LET parse_hash == GenerateHash(url)
    IN  /\ parse_results' = Put(parse_results, parse_hash, result)
        /\ last_parse_hash' = parse_hash
        /\ Called("store_parse_result", url, result, parse_hash)
        /\ returned' = [returned EXCEPT ![url] = @ \cup {parse_hash}]
        /\ stored' = stored \cup {url}
        /\ UNCHANGED <<summary_results, last_summary_hash, message_sent>>

\* a call of store_parse_result(url, result)
StoreParseResult(url, result) ==
    /\ store_parse_result(url, result)
    /\ UNCHANGED <<spliceVars, compVars, parseVars, restVars>>

\* ToolStateManager.store_summary_result(parse_hash, result): its effect on
\* the store
store_summary_result(parse_hash, result) ==
    LET summary_hash == SummaryHash(parse_hash)
    IN  /\ summary_results' = Put(summary_results, summary_hash, result)
        /\ last_summary_hash' = summary_hash
        /\ Called("store_summary_result", parse_hash, result, summary_hash)
        /\ UNCHANGED <<parse_results, last_parse_hash, message_sent,
                       returned, stored>>

\* a call of store_summary_result(parse_hash, result)
StoreSummaryResult(parse_hash, result) ==
    /\ store_summary_result(parse_hash, result)
    /\ UNCHANGED <<spliceVars, compVars, parseVars, restVars>>

\* what get_parse_result(parse_hash) gives: the result, or "ValueError"
ParseResultFor(parse_hash) ==
    LET effective_hash == Or(parse_hash, last_parse_hash)
    IN  IF effective_hash = None THEN "ValueError"
        ELSE IF effective_hash \notin DOMAIN parse_results THEN "ValueError"
        ELSE parse_results[effective_hash]

\* what get_summary_result(summary_hash) gives: the result, or "ValueError"
SummaryResultFor(summary_hash) ==
    LET effective_hash == Or(summary_hash, last_summary_hash)
    IN  IF effective_hash = None THEN "ValueError"
        ELSE IF effective_hash \notin DOMAIN summary_results THEN "ValueError"
        ELSE summary_results[effective_hash]

\* get_parse_result(parse_hash)
GetParseResult(parse_hash) ==
    /\ Called("get_parse_result", parse_hash, None, ParseResultFor(parse_hash))
    /\ UNCHANGED <<parse_results, summary_results, last_parse_hash,
                   last_summary_hash, message_sent, returned, stored>>
    /\ UNCHANGED <<spliceVars, compVars, parseVars, restVars>>

\* get_summary_result(summary_hash)
GetSummaryResult(summary_hash) ==
    /\ Called("get_summary_result", summary_hash, None,
              SummaryResultFor(summary_hash))
    /\ UNCHANGED <<parse_results, summary_results, last_parse_hash,
                   last_summary_hash, message_sent, returned, stored>>
    /\ UNCHANGED <<spliceVars, compVars, parseVars, restVars>>

\* mark_message_sent()
MarkMessageSent ==
    /\ message_sent' = TRUE
    /\ Called("mark_message_sent", None, None, None)
    /\ UNCHANGED <<parse_results, summary_results, last_parse_hash,
                   last_summary_hash, returned, stored>>
    /\ UNCHANGED <<spliceVars, compVars, parseVars, restVars>>

\* the message_sent property read
ReadMessageSent ==
    /\ Called("message_sent", None, None,
              IF message_sent THEN "True" ELSE "False")
    /\ UNCHANGED <<parse_results, summary_results, last_parse_hash,
                   last_summary_hash, message_sent, returned, stored>>
    /\ UNCHANGED <<spliceVars, compVars, parseVars, restVars>>

\* clear()
Clear ==
    /\ parse_results' = <<>>
    /\ summary_results' = <<>>
    /\ last_parse_hash' = None
    /\ last_summary_hash' = None
    /\ message_sent' = FALSE
    /\ Called("clear", None, None, None)
    /\ stored' = {}
    /\ UNCHANGED returned
    /\ UNCHANGED <<spliceVars, compVars, parseVars, restVars>>

\* ToolStateManager(): a fresh store
InitStore ==
    /\ IdleRest
    /\ IdleSplice
    /\ IdleCompress
    /\ IdleParse
    /\ parse_results = <<>> /\ summary_results = <<>>
    /\ last_parse_hash = None /\ last_summary_hash = None
    /\ message_sent = FALSE /\ call = NoCall /\ prev_call = NoCall
    /\ returned = [u \in Urls |-> {}] /\ stored = {} /\ ops = 0

NextStore ==
    \/ \E url \in Urls, result \in ParseResults : StoreParseResult(url, result)
    \/ \E h \in ParseHashes, result \in SummaryResults : StoreSummaryResult(h, result)
    \/ \E h \in ParseHashes \cup {None, "", "0000000000000000"} : GetParseResult(h)
    \/ \E h \in {SummaryHash(x) : x \in ParseHashes} \cup {None, "", "0000000000000000_sum"} :
          GetSummaryResult(h)
    \/ MarkMessageSent
    \/ ReadMessageSent
    \/ Clear

SpecStore == InitStore /\ [][NextStore]_vars

(***************************************************************************)
(* Store properties                                                        *)
(***************************************************************************)
\* C10: store_parse_result returns a hash that depends on the url alone: one
\* url always gets the same hash; the urls stored take no more slots than there
\* are urls; and the slot of the hash just returned holds the result just
\* stored, which get_parse_result(hash) gives back (the last write wins)
C10_HashDeterminism ==
    /\ \A u \in Urls : Cardinality(returned[u]) <= 1
    /\ (call.op = "store_parse_result" /\ prev_call.op = "store_parse_result"
          /\ call.arg = prev_call.arg) => call.out = prev_call.out
    /\ Cardinality(DOMAIN parse_results) <= Cardinality(stored)
    /\ call.op = "store_parse_result" =>
          /\ call.out = GenerateHash(call.arg)
          /\ ParseResultFor(call.out) = call.val
          /\ ParseResultFor(None) = call.val

C10_Witness ==
    /\ call.op = "store_parse_result" /\ prev_call.op = "store_parse_result"
    /\ call.arg = prev_call.arg
    /\ call.val # prev_call.val
    /\ call.out = prev_call.out
    /\ DOMAIN parse_results = {call.out}
    /\ ParseResultFor(call.out) = call.val

(***************************************************************************)
(* One parse call: the figure coordinator and the metadata extraction run  *)
(* under one asyncio.gather, then the splicer, then the tool's store call  *)
(***************************************************************************)
MAX_RETRIES == 5

MaxParseDoc == 2

\* how the analysis of one image goes, the same on every attempt:
\*   "ok"         _get_image_data and figure_analyser.ainvoke succeed
\*   "fetch_fail" _get_image_data raises FigureParseError
\*   "llm_fail"   figure_analyser.ainvoke raises
\*   "flaky"      figure_analyser.ainvoke raises on the first attempt only
Outcomes == {"ok", "fetch_fail", "llm_fail", "flaky"}
MetaOutcomes == {"ok", "fail", "flaky"}

\* what figure_analyser.ainvoke returns for image l
AnalysisOf(l) == <<"chart of ", l>>

\* the image a path or a token locator names
LocOf(p) == p[Len(p)]

FigIds == {"f1", "f2"}
\* an image of a PDF: the Figure the pipeline made for it and its token
PdfImgEl(id, l) ==
    [t |-> "img", alt |-> <<>>, src |-> TokenSrc("pdf", l), figure_id |-> <<id>>,
     caption |-> IF id = "f1" THEN NoneV ELSE <<"cap">>]

DataUri == <<"data:", "x">>
ParseElements(k) ==
    IF k = "html"
    THEN {TextEl(<<"Hello">>), ImgEl(<<>>, DataUri)}
         \cup {ImgEl(a, TokenSrc(k, l)) : a \in {<<>>, <<"cat">>}, l \in Locs}
    ELSE {TextEl(<<"Hello">>)} \cup {PdfImgEl(id, l) : id \in FigIds, l \in Locs}

\* not src or src.startswith("data:") or not absolute_url.startswith("http")
SkippedSrc(src) == src = <<>> \/ src[1] = "data:" \/ src[1] # "http://x/"

\* the loop of _extract_and_analyze_figures over the img tags from tag idx on
\* (idx counts from 1 here, from 0 in figure_id)
RECURSIVE HtmlCandidates(_, _, _)
HtmlCandidates(imgs, idx, seen_urls) ==
    IF idx > Len(imgs) THEN <<>>
    ELSE LET absolute_url == imgs[idx].src
         IN  IF SkippedSrc(absolute_url) \/ absolute_url \in seen_urls
             THEN HtmlCandidates(imgs, idx + 1, seen_urls)
             ELSE <<Figure(<<"fig-", idx - 1>>, absolute_url,
                           Strip(imgs[idx].alt), NoneV)>>
                  \o HtmlCandidates(imgs, idx + 1, seen_urls \cup {absolute_url})

\* the raw_figures handed to _analyze_figures_concurrently, one per image
PdfCandidates(imgs) ==
    [n \in 1..Len(imgs) |->
        Figure(imgs[n].figure_id, FigPath("pdf", LocOf(imgs[n].src)),
               imgs[n].caption, NoneV)]

\* the Figure.from_llm calls the coordinator of parser k makes for document d
Candidates(k, d) ==
    IF k = "html" THEN HtmlCandidates(SelectSeq(d, IsImg), 1, {})
    ELSE PdfCandidates(SelectSeq(d, IsImg))

\* a running Figure.from_llm call
Task(fig) ==
    [figure_id |-> fig.figure_id, path |-> fig.path, caption |-> fig.caption,
     analysis |-> NoneV, attempts |-> 0, st |-> "pending"]

\* a gather that does not wait
SettledAlways(t) == TRUE

\* the task is done: it returned or raised (gather waits for it either way)
Settled(t) == t.st # "pending"

\* a filter that keeps every result, the exceptions too
IsFigureAlways(t) == TRUE

\* isinstance(fig, Figure): the task returned a Figure
IsFigure(t) == t.st = "done"

\* a gather that hands the results back in the order the tasks settled
GatherByCompletion(ts, order) == [n \in 1..Len(order) |-> ts[order[n]]]

\* asyncio.gather(*tasks, return_exceptions=True): the results of the tasks in
\* the order the tasks were passed
GatherResults(ts, order) == ts

\* the list the coordinator returns: the results that are Figures
SuccessfulFigures(results) ==
    LET kept == SelectSeq(results, IsFigure)
    IN  [n \in 1..Len(kept) |->
            Figure(kept[n].figure_id, kept[n].path, kept[n].caption,
                   kept[n].analysis)]

\* a parse that never looks at the failure of the content task
ContentFailedNever(c) == FALSE

\* isinstance(results[1], Exception)
ContentFailed(c) == c.st = "raised"

\* an attempt that raises and is never retried
AfterFailureNoRetry(t) == [t EXCEPT !.attempts = @ + 1, !.st = "raised"]

\* an attempt that raises: tenacity retries it up to MAX_RETRIES attempts, then
\* re-raises
AfterFailure(t) ==
    [t EXCEPT !.attempts = @ + 1,
              !.st = IF t.attempts + 1 >= MAX_RETRIES THEN "raised" ELSE "pending"]

FailsNow(o, attempts) == o = "llm_fail" \/ (o = "flaky" /\ attempts = 0)
SucceedsNow(o, attempts) == o = "ok" \/ (o = "flaky" /\ attempts > 0)

ParseUrl == "http://x/1"

InitParse ==
    /\ IdleRest
    /\ IdleCompress
    /\ IdleStore
    /\ kind \in {"html", "pdf"}
    /\ doc \in SeqsUpTo(ParseElements(kind), MaxParseDoc)
    /\ figures = <<>> /\ missing = {} /\ enriched = NoneV /\ pcS = "idle"
    /\ outcome \in [Locs -> Outcomes]
    /\ meta_outcome \in MetaOutcomes
    /\ coord_fails \in BOOLEAN
    /\ tasks = <<>> /\ content = NoTask
    /\ invoked = [l \in Locs |-> 0] /\ completion = <<>>
    /\ coord = "none" /\ coord_result = <<>> /\ pcP = "start"

\* parse up to its gather: the coordinator makes its tasks, Content.from_llm starts
Launch ==
    /\ pcP = "start" /\ ~coord_fails
    /\ tasks' = [n \in 1..Len(Candidates(kind, doc)) |-> Task(Candidates(kind, doc)[n])]
    /\ coord' = "running"
    /\ content' = [attempts |-> 0, st |-> "pending"]
    /\ pcP' = "gather"
    /\ UNCHANGED <<outcome, meta_outcome, coord_fails, invoked, completion, coord_result>>
    /\ UNCHANGED <<spliceVars, compVars, storeVars, restVars>>

\* the coordinator's own body raises before its gather (results[0] is then an
\* Exception)
LaunchCoordinatorRaises ==
    /\ pcP = "start" /\ coord_fails
    /\ coord' = "raised"
    /\ content' = [attempts |-> 0, st |-> "pending"]
    /\ pcP' = "gather"
    /\ UNCHANGED <<outcome, meta_outcome, coord_fails, tasks, invoked, completion,
                   coord_result>>
    /\ UNCHANGED <<spliceVars, compVars, storeVars, restVars>>

\* Figure.from_llm, task i: _get_image_data raises FigureParseError, the Figure
\* is returned with analysis None
FigureFetchFails(i) ==
    /\ coord = "running" /\ i \in 1..Len(tasks) /\ tasks[i].st = "pending"
    /\ outcome[LocOf(tasks[i].path)] = "fetch_fail"
    /\ tasks' = [tasks EXCEPT ![i].attempts = @ + 1, ![i].st = "done",
                              ![i].analysis = NoneV]
    /\ completion' = Append(completion, i)
    /\ UNCHANGED <<outcome, meta_outcome, coord_fails, content, invoked, coord,
                   coord_result, pcP>>
    /\ UNCHANGED <<spliceVars, compVars, storeVars, restVars>>

\* Figure.from_llm, task i: ainvoke returns the analysis
FigureAnalysed(i) ==
    /\ coord = "running" /\ i \in 1..Len(tasks) /\ tasks[i].st = "pending"
    /\ SucceedsNow(outcome[LocOf(tasks[i].path)], tasks[i].attempts)
    /\ invoked' = [invoked EXCEPT ![LocOf(tasks[i].path)] = @ + 1]
    /\ tasks' = [tasks EXCEPT ![i].attempts = @ + 1, ![i].st = "done",
                              ![i].analysis = AnalysisOf(LocOf(tasks[i].path))]
    /\ completion' = Append(completion, i)
    /\ UNCHANGED <<outcome, meta_outcome, coord_fails, content, coord,
                   coord_result, pcP>>
    /\ UNCHANGED <<spliceVars, compVars, storeVars, restVars>>

\* Figure.from_llm, task i: ainvoke raises, RuntimeError, retried or re-raised
FigureAttemptFails(i) ==
    /\ coord = "running" /\ i \in 1..Len(tasks) /\ tasks[i].st = "pending"
    /\ FailsNow(outcome[LocOf(tasks[i].path)], tasks[i].attempts)
    /\ invoked' = [invoked EXCEPT ![LocOf(tasks[i].path)] = @ + 1]
    /\ tasks' = [tasks EXCEPT ![i] = AfterFailure(tasks[i])]
    /\ completion' = IF AfterFailure(tasks[i]).st = "raised"
                     THEN Append(completion, i) ELSE completion
    /\ UNCHANGED <<outcome, meta_outcome, coord_fails, content, coord,
                   coord_result, pcP>>
    /\ UNCHANGED <<spliceVars, compVars, storeVars, restVars>>

\* Content.from_llm: metadata_extractor.ainvoke returns
ContentExtracted ==
    /\ pcP = "gather" /\ content.st = "pending"
    /\ SucceedsNow(meta_outcome, content.attempts)
    /\ content' = [attempts |-> content.attempts + 1, st |-> "done"]
    /\ UNCHANGED <<outcome, meta_outcome, coord_fails, tasks, invoked, completion,
                   coord, coord_result, pcP>>
    /\ UNCHANGED <<spliceVars, compVars, storeVars, restVars>>

\* Content.from_llm: metadata_extractor.ainvoke raises, retried or re-raised
ContentAttemptFails ==
    /\ pcP = "gather" /\ content.st = "pending"
    /\ meta_outcome = "fail" \/ (meta_outcome = "flaky" /\ content.attempts = 0)
    /\ content' = AfterFailure(content)
    /\ UNCHANGED <<outcome, meta_outcome, coord_fails, tasks, invoked, completion,
                   coord, coord_result, pcP>>
    /\ UNCHANGED <<spliceVars, compVars, storeVars, restVars>>

\* the coordinator's gather ends when every task has settled; it returns the
\* Figures among the results
CoordinatorReturns ==
    /\ coord = "running"
    /\ \A n \in 1..Len(tasks) : Settled(tasks[n])
    /\ coord_result' = SuccessfulFigures(GatherResults(tasks, completion))
    /\ coord' = "returned"
    /\ UNCHANGED <<outcome, meta_outcome, coord_fails, tasks, content, invoked,
                   completion, pcP>>
    /\ UNCHANGED <<spliceVars, compVars, storeVars, restVars>>

\* results[0] if isinstance(results[0], list) else []
FiguresOfGather == IF coord = "returned" THEN coord_result ELSE <<>>

\* parse after its gather, the content extracted: splice and return
ParseReturns ==
    /\ pcP = "gather" /\ coord \in {"returned", "raised"} /\ Settled(content)
    /\ ~ContentFailed(content)
    /\ figures' = FiguresOfGather
    /\ enriched' = Enrich(kind, RawText(kind, doc), FiguresOfGather, {})
    /\ pcP' = "returned"
    /\ UNCHANGED <<kind, doc, missing, pcS>>
    /\ UNCHANGED <<outcome, meta_outcome, coord_fails, tasks, content, invoked,
                   completion, coord, coord_result>>
    /\ UNCHANGED <<compVars, storeVars, restVars>>

\* parse after its gather, the content extraction failed: raise results[1]
ParseRaises ==
    /\ pcP = "gather" /\ coord \in {"returned", "raised"} /\ Settled(content)
    /\ ContentFailed(content)
    /\ figures' = FiguresOfGather
    /\ pcP' = "raised"
    /\ UNCHANGED <<kind, doc, missing, enriched, pcS>>
    /\ UNCHANGED <<outcome, meta_outcome, coord_fails, tasks, content, invoked,
                   completion, coord, coord_result>>
    /\ UNCHANGED <<compVars, storeVars, restVars>>

\* parse_html / parse_pdf after parse has returned: store the result
ToolStores ==
    /\ pcP = "returned"
    /\ store_parse_result(ParseUrl, "parse-A")
    /\ pcP' = "stored"
    /\ UNCHANGED <<outcome, meta_outcome, coord_fails, tasks, content, invoked,
                   completion, coord, coord_result>>
    /\ UNCHANGED <<spliceVars, compVars, restVars>>

NextParse ==
    \/ Launch
    \/ LaunchCoordinatorRaises
    \/ \E i \in 1..Len(tasks) : FigureFetchFails(i)
    \/ \E i \in 1..Len(tasks) : FigureAnalysed(i)
    \/ \E i \in 1..Len(tasks) : FigureAttemptFails(i)
    \/ ContentExtracted
    \/ ContentAttemptFails
    \/ CoordinatorReturns
    \/ ParseReturns
    \/ ParseRaises
    \/ ToolStores

SpecParse == InitParse /\ [][NextParse]_vars

(***************************************************************************)
(* Parse properties                                                        *)
(***************************************************************************)
\* the tasks whose analysis call fails on every attempt
FailingTasks == {n \in 1..Len(tasks) : outcome[LocOf(tasks[n].path)] = "llm_fail"}
FetchFailed(fig) == outcome[LocOf(fig.path)] = "fetch_fail"
Returned == pcP \in {"returned", "stored"}

\* what the candidates and their outcomes determine, in document order: every
\* candidate but those whose analysis call keeps failing, with its analysis
WithAnalysis(c) ==
    Figure(c.figure_id, c.path, c.caption,
           IF FetchFailed(c) THEN NoneV ELSE AnalysisOf(LocOf(c.path)))
NotFailing(c) == outcome[LocOf(c.path)] # "llm_fail"
ExpectedFigures ==
    LET kept == SelectSeq(Candidates(kind, doc), NotFailing)
    IN  [n \in 1..Len(kept) |-> WithAnalysis(kept[n])]

ParseStuck ==
    /\ pcP = "gather"
    /\ Settled(content)
    /\ coord \notin {"running", "returned", "raised"}

ExpectedToken(k, e, figs) ==
    LET ms == Matching(k, figs, e.src)
    IN  IF ms = {} THEN <<>>
        ELSE LET fig == figs[CHOOSE f \in ms : \A g \in ms : g <= f]
             IN  IF Truthy(fig.analysis)
                 THEN EnrichedToken(AltText(e.alt, fig), fig.path,
                                    EscapeQuotes(fig.analysis))
                 ELSE <<>>
ExpectedText ==
    LET figs == IF coord_fails THEN <<>> ELSE ExpectedFigures
    IN  Join(IF kind = "html" THEN <<SP>> ELSE <<NL, NL>>,
             [n \in 1..Len(doc) |->
                IF IsImg(doc[n]) THEN ExpectedToken(kind, doc[n], figs)
                ELSE doc[n].alt])

\* C3: one Figure.from_llm call per locator, so one analysis call when it
\* succeeds at once; the call carries the id and caption of the locator's first
\* image; every token of an analysed locator is enriched
C3_Dedup ==
    \A l \in Locs :
        LET mine  == {n \in 1..Len(tasks) : LocOf(tasks[n].path) = l}
            imgs  == Imgs(doc)
            first == Min({n \in 1..Len(imgs) : imgs[n].src = TokenSrc(kind, l)})
        IN  /\ Cardinality(mine) <= 1
            /\ outcome[l] = "ok" => invoked[l] <= 1
            /\ \A n \in mine :
                  /\ tasks[n].figure_id = IF kind = "html" THEN <<"fig-", first - 1>>
                                          ELSE imgs[first].figure_id
                  /\ tasks[n].caption = IF kind = "html" THEN Strip(imgs[first].alt)
                                        ELSE imgs[first].caption
            /\ (Returned /\ ~coord_fails /\ outcome[l] \in {"ok", "flaky"}) =>
                  \A n \in 1..Len(doc) :
                      (IsImg(doc[n]) /\ doc[n].src = TokenSrc(kind, l)) =>
                          ExpectedToken(kind, doc[n], figures) # <<>>

\* two PDF figures of one file with different ids: two analysis calls
C3_Witness ==
    /\ kind = "pdf"
    /\ Len(tasks) = 2
    /\ tasks[1].path = tasks[2].path
    /\ tasks[1].figure_id # tasks[2].figure_id
    /\ outcome[LocOf(tasks[1].path)] = "ok"
    /\ invoked[LocOf(tasks[1].path)] = 2
    /\ coord = "returned"

\* C6: the text parse returns is the one the raw text and the per-figure
\* outcomes determine, whatever the order the analysis tasks completed in: the
\* enriched tokens stand where their placeholders stood, the rest is unchanged
C6_OrderIndependent ==
    Returned => enriched = ExpectedText

C6_Witness ==
    /\ Returned
    /\ completion = <<2, 1>>
    /\ Len(doc) = 2
    /\ doc[1].src # doc[2].src
    /\ NEnriched(enriched) = 2

(***************************************************************************)
(* Concurrent requests: tool_state_context, get_state_manager and the      *)
(* state_manager proxy.  _state_context is a ContextVar, so each request's *)
(* execution context holds its own value of it.                            *)
(***************************************************************************)
MaxReqOps == 2

\* ToolStateManager(): the fields of a fresh instance
NewStore(channel_id) ==
    [parse_results |-> <<>>, summary_results |-> <<>>,
     last_parse_hash |-> None, last_summary_hash |-> None,
     slack_channel_id |-> channel_id, message_sent |-> FALSE]

\* dict.get(effective_hash) under the checks of get_parse_result /
\* get_summary_result
Lookup(table, hash, last) ==
    LET effective_hash == Or(hash, last)
    IN  IF effective_hash = None THEN "ValueError"
        ELSE IF effective_hash \notin DOMAIN table THEN "ValueError"
        ELSE table[effective_hash]

\* one method of ToolStateManager applied to the instance st: the instance
\* afterwards and the value returned (or the error raised)
Do(st, o) ==
    CASE o.op = "store_parse_result" ->
           [st  |-> [st EXCEPT !.parse_results = Put(@, GenerateHash(o.arg), o.val),
                               !.last_parse_hash = GenerateHash(o.arg)],
            ret |-> GenerateHash(o.arg)]
      [] o.op = "store_summary_result" ->
           [st  |-> [st EXCEPT !.summary_results = Put(@, SummaryHash(o.arg), o.val),
                               !.last_summary_hash = SummaryHash(o.arg)],
            ret |-> SummaryHash(o.arg)]
      [] o.op = "get_parse_result" ->
           [st |-> st, ret |-> Lookup(st.parse_results, o.arg, st.last_parse_hash)]
      [] o.op = "get_summary_result" ->
           [st |-> st, ret |-> Lookup(st.summary_results, o.arg, st.last_summary_hash)]
      [] o.op = "mark_message_sent" ->
           [st |-> [st EXCEPT !.message_sent = TRUE], ret |-> None]
      [] o.op = "message_sent" ->
           [st |-> st, ret |-> IF st.message_sent THEN "True" ELSE "False"]
      [] o.op = "_last_parse_hash" ->
           [st |-> st, ret |-> st.last_parse_hash]
      [] o.op = "clear" ->
           [st |-> NewStore(None), ret |-> None]

\* the inputs of the requests: both parse the same url
ChannelOf(r) == IF r = 1 THEN "C-one" ELSE "C-two"
ParseOf(r) == IF r = 1 THEN "parse-A" ELSE "parse-B"
SummaryOf(r) == IF r = 1 THEN "summary-A" ELSE "summary-B"
ReqCalls(r) ==
    { [op |-> "store_parse_result", arg |-> ParseUrl, val |-> ParseOf(r)],
      [op |-> "store_summary_result", arg |-> GenerateHash(ParseUrl),
       val |-> SummaryOf(r)],
      [op |-> "get_parse_result", arg |-> None, val |-> None],
      [op |-> "get_parse_result", arg |-> GenerateHash(ParseUrl), val |-> None],
      [op |-> "get_summary_result", arg |-> None, val |-> None],
      [op |-> "mark_message_sent", arg |-> None, val |-> None],
      [op |-> "message_sent", arg |-> None, val |-> None],
      [op |-> "_last_parse_hash", arg |-> None, val |-> None],
      [op |-> "clear", arg |-> None, val |-> None] }

\* a lookup that finds the instance constructed last, whoever constructed it
get_state_manager_global(r) == Len(instances)

\* get_state_manager(): _state_context.get() in the caller's context (0: the
\* LookupError, raised as RuntimeError)
get_state_manager(r) == ctx[r]

InitRequests ==
    /\ IdleExceptReq
    /\ instances = <<>> /\ ctx = [r \in Requests |-> 0]
    /\ shadow = [r \in Requests |-> None]
    /\ req_pc = [r \in Requests |-> "new"]
    /\ req_ops = [r \in Requests |-> 0] /\ last_ret = NoRet

\* with tool_state_context(channel_id): a new instance, set in this context
EnterContext(r) ==
    /\ req_pc[r] = "new"
    /\ instances' = Append(instances, NewStore(ChannelOf(r)))
    /\ ctx' = [ctx EXCEPT ![r] = Len(instances) + 1]
    /\ shadow' = [shadow EXCEPT ![r] = NewStore(ChannelOf(r))]
    /\ req_pc' = [req_pc EXCEPT ![r] = "in"]
    /\ UNCHANGED <<req_ops, last_ret>>
    /\ UNCHANGED exceptReq

\* a tool of request r calls state_manager.<o.op>(...) inside the context
ProxyCall(r, o) ==
    /\ req_pc[r] = "in" /\ req_ops[r] < MaxReqOps
    /\ get_state_manager(r) # 0
    /\ instances' = [instances EXCEPT ![get_state_manager(r)] = Do(@, o).st]
    /\ shadow' = [shadow EXCEPT ![r] = Do(@, o).st]
    /\ last_ret' = [req |-> r, op |-> o.op,
                    got |-> Do(instances[get_state_manager(r)], o).ret,
                    want |-> Do(shadow[r], o).ret]
    /\ req_ops' = [req_ops EXCEPT ![r] = @ + 1]
    /\ UNCHANGED <<ctx, req_pc>>
    /\ UNCHANGED exceptReq

\* leaving the with block: _state_context.reset(token)
ExitContext(r) ==
    /\ req_pc[r] = "in"
    /\ ctx' = [ctx EXCEPT ![r] = 0]
    /\ req_pc' = [req_pc EXCEPT ![r] = "out"]
    /\ UNCHANGED <<instances, shadow, req_ops, last_ret>>
    /\ UNCHANGED exceptReq

\* a call through the proxy with no active context: RuntimeError
ProxyCallOutside(r, o) ==
    /\ req_pc[r] = "out"
    /\ get_state_manager(r) = 0
    /\ last_ret' = [req |-> r, op |-> o.op, got |-> "RuntimeError",
                    want |-> "RuntimeError"]
    /\ req_pc' = [req_pc EXCEPT ![r] = "done"]
    /\ UNCHANGED <<instances, ctx, shadow, req_ops>>
    /\ UNCHANGED exceptReq

\* a call through the proxy before any context was entered, as run_agent of
\* tests/test_agents.py makes it: RuntimeError, and no store is made
ProxyCallBefore(r, o) ==
    /\ req_pc[r] = "new"
    /\ get_state_manager(r) = 0
    /\ last_ret' = [req |-> r, op |-> o.op, got |-> "RuntimeError",
                    want |-> "RuntimeError"]
    /\ UNCHANGED <<instances, ctx, shadow, req_pc, req_ops>>
    /\ UNCHANGED exceptReq

NextRequests ==
    \/ \E r \in Requests : \E o \in ReqCalls(r) : ProxyCallBefore(r, o)
    \/ \E r \in Requests : EnterContext(r)
    \/ \E r \in Requests : \E o \in ReqCalls(r) : ProxyCall(r, o)
    \/ \E r \in Requests : ExitContext(r)
    \/ \E r \in Requests : \E o \in ReqCalls(r) : ProxyCallOutside(r, o)

SpecRequests == InitRequests /\ [][NextRequests]_vars

\* C11: whatever the interleaving of the two requests, the instance a request
\* works on holds exactly what its own calls made of it, every call returns
\* what it would return with the other request absent, and the two requests
\* never share an instance
C11_RequestIsolation ==
    /\ \A r \in Requests : ctx[r] # 0 => instances[ctx[r]] = shadow[r]
    /\ last_ret.got = last_ret.want
    /\ (ctx[1] # 0 /\ ctx[2] # 0) => ctx[1] # ctx[2]
    /\ Len(instances) = Cardinality({r \in Requests : req_pc[r] # "new"})
    /\ \A r \in Requests : req_pc[r] \in {"out", "done"} =>
          \E n \in 1..Len(instances) : instances[n] = shadow[r]

C11_Witness ==
    /\ ctx[1] # 0 /\ ctx[2] # 0
    /\ instances[ctx[2]].last_parse_hash = GenerateHash(ParseUrl)
    /\ instances[ctx[2]].parse_results[GenerateHash(ParseUrl)] = ParseOf(2)
    /\ req_ops[2] = 1
    /\ last_ret = [req |-> 1, op |-> "_last_parse_hash", got |-> None, want |-> None]

(***************************************************************************)
(* Store properties: lookups and summaries                                 *)
(***************************************************************************)
StoreState == <<parse_results, summary_results, last_parse_hash,
                last_summary_hash, message_sent>>
IsGet(c) == c.op \in {"get_parse_result", "get_summary_result"}
Omitted(h) == h = None

\* what a lookup in table gives for the call c, with last the table's pointer
C12_LookupIn(c, table, last, store_op) ==
    /\ (~Omitted(c.arg) /\ c.arg \in DOMAIN table) => c.out = table[c.arg]
    /\ (~Omitted(c.arg) /\ c.arg # "" /\ c.arg \notin DOMAIN table) =>
          c.out = "ValueError"
    /\ (Omitted(c.arg) /\ last # None) => c.out = table[last]
    /\ (Omitted(c.arg) /\ prev_call.op = store_op) => c.out = prev_call.val
    /\ (Omitted(c.arg) /\ last = None) => c.out = "ValueError"
    /\ (Omitted(c.arg) /\ table = <<>>) => c.out = "ValueError"

C12_Lookups ==
    /\ last_parse_hash # None => last_parse_hash \in DOMAIN parse_results
    /\ last_summary_hash # None => last_summary_hash \in DOMAIN summary_results
    /\ call.op = "get_parse_result" =>
          C12_LookupIn(call, parse_results, last_parse_hash, "store_parse_result")
    /\ call.op = "get_summary_result" =>
          C12_LookupIn(call, summary_results, last_summary_hash,
                       "store_summary_result")

C12_GetLeavesStore == (ops' # ops /\ IsGet(call')) => StoreState' = StoreState

C13_SummaryHash ==
    /\ call.op = "store_summary_result" =>
          /\ call.out = call.arg \o "_sum"
          /\ call.out \in DOMAIN summary_results
          /\ summary_results[call.out] = call.val
          /\ last_summary_hash = call.out
    /\ (call.op = "get_summary_result" /\ call.arg = None
          /\ prev_call.op = "store_summary_result") => call.out = prev_call.val
    /\ \A k \in DOMAIN summary_results :
          Cardinality({h \in ParseHashes : h \o "_sum" = k}) = 1

C13_Witness ==
    /\ call.op = "get_summary_result" /\ call.arg = None
    /\ call.out = "summary-B"
    /\ prev_call.op = "store_summary_result"
    /\ Cardinality(DOMAIN summary_results) = 2

(***************************************************************************)
(* The send_slack_message tool (agent_tools.py) on one store.  A call runs  *)
(* without suspension up to "await _send_slack_message(...)": the flag     *)
(* check and the two lookups are one step.  The broadcast awaits each      *)
(* channel post, so a delivery and the mark that follows it are two steps. *)
(* call, prev_call and ops record the direct calls on the store only.      *)
(***************************************************************************)
\* str(flag)
Str(flag) == IF flag THEN "True" ELSE "False"

\* a guard that never finds the message sent
AlreadySentNever == FALSE

\* if state_manager.message_sent:
AlreadySent == message_sent

InitDeliver ==
    /\ IdleExceptSendStore
    /\ parse_results = <<>> /\ summary_results = <<>>
    /\ last_parse_hash = None /\ last_summary_hash = None
    /\ message_sent = FALSE /\ call = NoCall /\ prev_call = NoCall
    /\ returned = [u \in Urls |-> {}] /\ stored = {} /\ ops = 0
    /\ send_pc = [c \in SendCalls |-> "new"]
    /\ send_saw = [c \in SendCalls |-> None]
    /\ send_delivered = [c \in SendCalls |-> 0]
    /\ send_ret = [c \in SendCalls |-> None]

\* the call starts and the flag is set: the early return
SendSkipped(c) ==
    /\ send_pc[c] = "new"
    /\ AlreadySent
    /\ send_saw' = [send_saw EXCEPT ![c] = Str(message_sent)]
    /\ send_ret' = [send_ret EXCEPT ![c] = "already sent"]
    /\ send_pc' = [send_pc EXCEPT ![c] = "done"]
    /\ UNCHANGED <<send_delivered, storeVars, exceptSendStore>>

\* the call starts, the flag is not set, a lookup raises ValueError
SendLookupRaises(c) ==
    /\ send_pc[c] = "new"
    /\ ~AlreadySent
    /\ "ValueError" \in {ParseResultFor(None), SummaryResultFor(None)}
    /\ send_saw' = [send_saw EXCEPT ![c] = Str(message_sent)]
    /\ send_ret' = [send_ret EXCEPT ![c] = "ValueError"]
    /\ send_pc' = [send_pc EXCEPT ![c] = "raised"]
    /\ UNCHANGED <<send_delivered, storeVars, exceptSendStore>>

\* the call starts, the flag is not set, both lookups succeed: it awaits
\* _send_slack_message(parsed_result, summary_result, ...)
SendStarts(c) ==
    /\ send_pc[c] = "new"
    /\ ~AlreadySent
    /\ "ValueError" \notin {ParseResultFor(None), SummaryResultFor(None)}
    /\ send_saw' = [send_saw EXCEPT ![c] = Str(message_sent)]
    /\ send_pc' = [send_pc EXCEPT ![c] = "sending"]
    /\ UNCHANGED <<send_delivered, send_ret, storeVars, exceptSendStore>>

\* a channel accepts the message: chat_postMessage succeeded
SendDelivers(c) ==
    /\ send_pc[c] = "sending"
    /\ send_delivered' = [send_delivered EXCEPT ![c] = @ + 1]
    /\ send_pc' = [send_pc EXCEPT ![c] = "posted"]
    /\ UNCHANGED <<send_saw, send_ret, storeVars, exceptSendStore>>

\* a broadcast result that is taken for success whatever was posted
SuccessAssumed(c) == send_pc[c] \in {"sending", "posted"}

\* success = any(successful_sends): a channel post of this call succeeded
Success(c) == send_pc[c] = "posted"

\* success: state_manager.mark_message_sent() and the "Sent summary" result
SendSucceeds(c) ==
    /\ Success(c)
    /\ message_sent' = TRUE
    /\ send_ret' = [send_ret EXCEPT ![c] = "sent"]
    /\ send_pc' = [send_pc EXCEPT ![c] = "done"]
    /\ UNCHANGED <<parse_results, summary_results, last_parse_hash,
                   last_summary_hash, call, prev_call, returned, stored, ops>>
    /\ UNCHANGED <<send_saw, send_delivered, exceptSendStore>>

\* no channel accepted the message: the "Failed to send" result, no mark
SendFails(c) ==
    /\ send_pc[c] = "sending"
    /\ send_ret' = [send_ret EXCEPT ![c] = "failed"]
    /\ send_pc' = [send_pc EXCEPT ![c] = "done"]
    /\ UNCHANGED <<send_saw, send_delivered, storeVars, exceptSendStore>>

\* the broadcast raised before any post (format_slack_message, the bot
\* configuration): the exception leaves the tool, no mark
SendBroadcastRaises(c) ==
    /\ send_pc[c] = "sending"
    /\ send_ret' = [send_ret EXCEPT ![c] = "Exception"]
    /\ send_pc' = [send_pc EXCEPT ![c] = "raised"]
    /\ UNCHANGED <<send_saw, send_delivered, storeVars, exceptSendStore>>

NextDeliver ==
    \/ StoreParseResult(ParseUrl, "parse-A")
    \/ StoreSummaryResult(GenerateHash(ParseUrl), "summary-A")
    \/ MarkMessageSent
    \/ Clear
    \/ \E c \in SendCalls : SendSkipped(c)
    \/ \E c \in SendCalls : SendLookupRaises(c)
    \/ \E c \in SendCalls : SendStarts(c)
    \/ \E c \in SendCalls : SendDelivers(c)
    \/ \E c \in SendCalls : SendSucceeds(c)
    \/ \E c \in SendCalls : SendFails(c)
    \/ \E c \in SendCalls : SendBroadcastRaises(c)

SpecDeliver == InitDeliver /\ [][NextDeliver]_vars

\* a step that is mark_message_sent(), called directly or by the tool
IsMark ==
    \/ ops' # ops /\ call'.op = "mark_message_sent"
    \/ \E c \in SendCalls : send_pc[c] = "posted" /\ send_pc'[c] = "done"

C14_SkippedCalls ==
    \A c \in SendCalls : send_saw[c] = "True" =>
        /\ send_delivered[c] = 0
        /\ send_ret[c] = "already sent"
        /\ send_pc[c] = "done"

C14_FlagSteps ==
    /\ IsMark => message_sent'
    /\ (IsMark /\ message_sent) => StoreState' = StoreState
    /\ (message_sent /\ ~message_sent') => (ops' # ops /\ call'.op = "clear")

\* C14: a mark sets the flag, the flag stays set in every later state until
\* clear(), a mark on a set flag changes nothing in the store, and a
\* send_slack_message call that starts while the flag is set delivers nothing
\* and returns the "already sent" result.
C14_DeliveryGuard == []C14_SkippedCalls /\ [][C14_FlagSteps]_vars

\* one call delivered and marked, a later call found the flag set
C14_Witness ==
    /\ send_ret[1] = "sent" /\ send_delivered[1] = 1
    /\ send_saw[2] = "True" /\ send_ret[2] = "already sent"
    /\ message_sent

(***************************************************************************)
(* RetryableBase._retry: tenacity.retry(wait=wait_exponential(multiplier=   *)
(* RETRY_MULTIPLIER, max=RETRY_MAX_WAIT), stop=stop_after_attempt(          *)
(* MAX_RETRIES), reraise=True) around one unit of work.  Two units run      *)
(* concurrently (a figure analysis and the metadata extraction); the        *)
(* service of unit u fails on its first retry_fails[u] attempts.            *)
(***************************************************************************)
RETRY_MAX_WAIT == 120
RETRY_MULTIPLIER == 30

\* wait_exponential(multiplier, max): the sleep after failed attempt number n,
\* min(multiplier * 2 ** (n - 1), max)
wait_exponential(attempt_number) ==
    Min({RETRY_MULTIPLIER * 2 ^ (attempt_number - 1), RETRY_MAX_WAIT})

\* a stop that allows one attempt more
stop_after_attempt_late(attempt_number) == attempt_number > MAX_RETRIES

\* stop_after_attempt(MAX_RETRIES): stop once attempt number n has been made
stop_after_attempt(attempt_number) == attempt_number >= MAX_RETRIES

InitRetry ==
    /\ IdleExceptRetry
    /\ retry_fails \in [Units -> 0..(MAX_RETRIES + 1)]
    /\ retry_attempts = [u \in Units |-> 0]
    /\ retry_waits = [u \in Units |-> <<>>]
    /\ retry_st = [u \in Units |-> "calling"]

\* the attempt returns: the decorated call returns its value
AttemptSucceeds(u) ==
    /\ retry_st[u] = "calling"
    /\ retry_attempts[u] + 1 > retry_fails[u]
    /\ retry_attempts' = [retry_attempts EXCEPT ![u] = @ + 1]
    /\ retry_st' = [retry_st EXCEPT ![u] = "ok"]
    /\ UNCHANGED <<retry_fails, retry_waits, exceptRetry>>

\* the attempt raises and the stop condition does not hold: before_sleep, sleep
AttemptFailsRetry(u) ==
    /\ retry_st[u] = "calling"
    /\ retry_attempts[u] + 1 <= retry_fails[u]
    /\ ~stop_after_attempt(retry_attempts[u] + 1)
    /\ retry_attempts' = [retry_attempts EXCEPT ![u] = @ + 1]
    /\ retry_waits' = [retry_waits EXCEPT
                         ![u] = Append(@, wait_exponential(retry_attempts[u] + 1))]
    /\ retry_st' = [retry_st EXCEPT ![u] = "sleeping"]
    /\ UNCHANGED <<retry_fails, exceptRetry>>

\* the attempt raises and the stop condition holds: reraise=True
AttemptFailsLast(u) ==
    /\ retry_st[u] = "calling"
    /\ retry_attempts[u] + 1 <= retry_fails[u]
    /\ stop_after_attempt(retry_attempts[u] + 1)
    /\ retry_attempts' = [retry_attempts EXCEPT ![u] = @ + 1]
    /\ retry_st' = [retry_st EXCEPT ![u] = "raised"]
    /\ UNCHANGED <<retry_fails, retry_waits, exceptRetry>>

\* the sleep ends: the next attempt
SleepEnds(u) ==
    /\ retry_st[u] = "sleeping"
    /\ retry_st' = [retry_st EXCEPT ![u] = "calling"]
    /\ UNCHANGED <<retry_fails, retry_attempts, retry_waits, exceptRetry>>

NextRetry ==
    \/ \E u \in Units : AttemptSucceeds(u)
    \/ \E u \in Units : AttemptFailsRetry(u)
    \/ \E u \in Units : AttemptFailsLast(u)
    \/ \E u \in Units : SleepEnds(u)

SpecRetry == InitRetry /\ [][NextRetry]_vars

\* C15: a unit whose call fails on every attempt makes exactly 5 attempts and
\* then raises; a unit that succeeds on attempt i <= 5 makes exactly i
\* attempts; the waits start at the base delay, double from one retry to the
\* next until they reach the maximum wait, and never exceed it.
C15_RetryCeiling ==
    \A u \in Units :
        /\ retry_attempts[u] <= 5
        /\ retry_st[u] = "raised" =>
              /\ retry_attempts[u] = 5
              /\ retry_fails[u] >= 5
              /\ Len(retry_waits[u]) = 4
        /\ retry_st[u] = "ok" =>
              /\ retry_fails[u] < 5
              /\ retry_attempts[u] = retry_fails[u] + 1
              /\ Len(retry_waits[u]) = retry_fails[u]
        /\ \A n \in 1..Len(retry_waits[u]) :
              /\ retry_waits[u][n] <= 120
              /\ n = 1 => retry_waits[u][n] = 30
              /\ n > 1 => retry_waits[u][n] \in {2 * retry_waits[u][n - 1], 120}
              /\ n > 1 => retry_waits[u][n] >= retry_waits[u][n - 1]

\* one unit failed on all 5 attempts after waits of 30, 60, 120, 120 seconds,
\* the other succeeded on its third attempt
C15_Witness ==
    /\ retry_st["figure_analysing"] = "raised"
    /\ retry_attempts["figure_analysing"] = 5
    /\ retry_waits["figure_analysing"] = <<30, 60, 120, 120>>
    /\ retry_st["content_parsing"] = "ok"
    /\ retry_attempts["content_parsing"] = 3

(***************************************************************************)
(* Parse properties, continued                                             *)
(***************************************************************************)
\* ainvoke calls the tasks ts made: every attempt of a task that got its image
RECURSIVE ServiceCalls(_)
ServiceCalls(ts) ==
    IF ts = <<>> THEN 0
    ELSE (IF FetchFailed(Head(ts)) THEN 0 ELSE Head(ts).attempts)
         + ServiceCalls(Tail(ts))

RECURSIVE Invoked(_)
Invoked(ls) == IF ls = <<>> THEN 0 ELSE invoked[Head(ls)] + Invoked(Tail(ls))

C16_AllSettled ==
    /\ coord = "returned" =>
          /\ \A n \in 1..Len(tasks) : tasks[n].st \in {"done", "raised"}
          /\ Len(completion) = Len(tasks)
    /\ Invoked(LocSeq) = ServiceCalls(tasks)

C16_LocalSteps ==
    /\ tasks # <<>> => Len(tasks') = Len(tasks)
    /\ \A i \in 1..Len(tasks) : tasks'[i] # tasks[i] =>
          /\ tasks[i].st = "pending"
          /\ tasks'[i].attempts = tasks[i].attempts + 1
          /\ \A j \in 1..Len(tasks) : j # i => tasks'[j] = tasks[j]
          /\ content' = content
    /\ (content.st # "none" /\ content' # content) =>
          /\ content.st = "pending"
          /\ content'.attempts = content.attempts + 1
          /\ tasks' = tasks

\* C16: the coordinator returns only when every figure task has returned or
\* raised for good; a step of one task (an attempt that fails, is retried or
\* succeeds) leaves every sibling task and the metadata task as they were, a
\* settled task never runs again, and the service is called once per attempt.
C16_GatherNoShortCircuit == []C16_AllSettled /\ [][C16_LocalSteps]_vars

\* the coordinator returned after one task failed 5 times, its sibling having
\* succeeded at the first attempt and the metadata task at its second
C16_Witness ==
    /\ coord = "returned" /\ Len(tasks) = 2
    /\ tasks[1].st = "raised" /\ tasks[1].attempts = 5
    /\ tasks[2].st = "done" /\ tasks[2].attempts = 1
    /\ content.st = "done" /\ content.attempts = 2
    /\ completion = <<2, 1>>

(***************************************************************************)
(* YouTubeParser.parse: the upload info and the transcript are fetched in  *)
(* two threads gathered together, then Content.from_llm extracts the       *)
(* metadata (with its retries) and the ParseResult is built.               *)
(***************************************************************************)
VideoIds == {"dQw4w9WgXcQ", "9bZkp7q19f0"}
Languages == {"en", "ko", "ja"}
InfoKeys == {"title", "uploader", "upload_date", "duration"}

\* info.get(key, default) on the dict extract_info returned
InfoGet(info, key, default) ==
    IF key \in info.keys THEN "info-" \o key ELSE default

\* YouTubeParser._get_metadata(url, video_id)
get_metadata(video_id, info) ==
    LET title == "YouTube Video '" \o video_id \o "'"
        authors == "Unknown Author"
        published_date == ""
    IN  IF info.st = "ok"
        THEN [st |-> "returned",
              title |-> InfoGet(info, "title", title),
              authors |-> InfoGet(info, "uploader", authors),
              published_date |-> InfoGet(info, "upload_date", published_date),
              metadata |-> [duration |-> InfoGet(info, "duration", None),
                            like_count |-> InfoGet(info, "like_count", None),
                            view_count |-> InfoGet(info, "view_count", None)]]
        ELSE [st |-> "returned", title |-> title, authors |-> authors,
              published_date |-> published_date, metadata |-> <<>>]

\* a lookup that takes any transcript there is
find_transcript_any(languages, available) ==
    IF available = {} THEN "NoTranscriptFound"
    ELSE CHOOSE l \in available : TRUE

\* transcript_list.find_transcript(languages): the first requested language
\* that has a transcript, NoTranscriptFound when none has
find_transcript(languages, available) ==
    LET hits == {n \in 1..Len(languages) : languages[n] \in available}
    IN  IF hits = {} THEN "NoTranscriptFound" ELSE languages[Min(hits)]

\* languages or ["en", "ko"]
EffectiveLanguages(languages) ==
    IF languages = <<>> THEN <<"en", "ko">> ELSE languages

\* YouTubeParser._get_transcript(video_id, languages)
get_transcript(video_id, languages, transcripts, available) ==
    LET msg == "No transcript available for video ID '" \o video_id \o "'"
        found == find_transcript(languages, available)
    IN  IF transcripts = "disabled"
        THEN [st |-> "ContentParseError", text |-> None, msg |-> msg]
        ELSE IF transcripts = "error"
        THEN [st |-> "ContentParseError", text |-> None,
              msg |-> "Failed to fetch transcript for YouTube video '"
                      \o video_id \o "'"]
        ELSE IF found = "NoTranscriptFound"
        THEN [st |-> "ContentParseError", text |-> None, msg |-> msg]
        ELSE [st |-> "returned", text |-> "transcript-" \o found, msg |-> None]

InitYoutube ==
    /\ IdleExceptYoutube
    /\ yt_in \in [video_id : VideoIds,
                  languages : {<<>>, <<"ja">>, <<"ko", "en">>},
                  info : [st : {"ok"}, keys : SUBSET InfoKeys]
                         \cup [st : {"raises", "none"}, keys : {{}}],
                  available : SUBSET Languages,
                  transcripts : {"ok", "disabled", "error"},
                  meta_outcome : MetaOutcomes]
    /\ yt_meta = NoMeta /\ yt_text = NoText /\ yt_content = NoTask
    /\ yt_raw = NoRaw /\ yt_result = NoResult /\ yt_error = None
    /\ yt_pc = "gather"

\* asyncio.to_thread(self._get_metadata, url, video_id) finishes
MetadataThread ==
    /\ yt_meta.st = "running"
    /\ yt_meta' = get_metadata(yt_in.video_id, yt_in.info)
    /\ UNCHANGED <<yt_in, yt_text, yt_content, yt_raw, yt_result, yt_error, yt_pc>>
    /\ UNCHANGED exceptYoutube

\* asyncio.to_thread(self._get_transcript, video_id, effective_languages)
\* finishes
TranscriptThread ==
    /\ yt_text.st = "running"
    /\ yt_text' = get_transcript(yt_in.video_id,
                                 EffectiveLanguages(yt_in.languages),
                                 yt_in.transcripts, yt_in.available)
    /\ UNCHANGED <<yt_in, yt_meta, yt_content, yt_raw, yt_result, yt_error, yt_pc>>
    /\ UNCHANGED exceptYoutube

\* the gather raises the transcript thread's exception as soon as it is raised
YtGatherRaises ==
    /\ yt_pc = "gather"
    /\ yt_text.st = "ContentParseError"
    /\ yt_error' = yt_text.msg
    /\ yt_pc' = "raised"
    /\ UNCHANGED <<yt_in, yt_meta, yt_text, yt_content, yt_raw, yt_result>>
    /\ UNCHANGED exceptYoutube

\* both threads returned: Content.from_llm is called with the raw values
YtGatherReturns ==
    /\ yt_pc = "gather"
    /\ yt_meta.st = "returned" /\ yt_text.st = "returned"
    /\ yt_raw' = [raw_title |-> Or(yt_meta.title, ""),
                  raw_authors |-> Or(yt_meta.authors, ""),
                  raw_published_date |-> Or(yt_meta.published_date, "")]
    /\ yt_content' = [attempts |-> 0, st |-> "pending"]
    /\ yt_pc' = "content"
    /\ UNCHANGED <<yt_in, yt_meta, yt_text, yt_result, yt_error>>
    /\ UNCHANGED exceptYoutube

\* Content.from_llm: metadata_extractor.ainvoke raises, retried or re-raised
YtContentAttemptFails ==
    /\ yt_pc = "content" /\ yt_content.st = "pending"
    /\ FailsNow(IF yt_in.meta_outcome = "fail" THEN "llm_fail"
                ELSE yt_in.meta_outcome, yt_content.attempts)
    /\ yt_content' = AfterFailure(yt_content)
    /\ UNCHANGED <<yt_in, yt_meta, yt_text, yt_raw, yt_result, yt_error, yt_pc>>
    /\ UNCHANGED exceptYoutube

\* Content.from_llm returns; the raw values go into metadata; the ParseResult
YtParseReturns ==
    /\ yt_pc = "content" /\ yt_content.st = "pending"
    /\ SucceedsNow(yt_in.meta_outcome, yt_content.attempts)
    /\ yt_content' = [attempts |-> yt_content.attempts + 1, st |-> "done"]
    /\ yt_result' =
          [content |-> [text |-> yt_text.text,
                        metadata |->
                           Put(Put(Put(yt_meta.metadata,
                                       "raw_title", yt_meta.title),
                                   "raw_authors", yt_meta.authors),
                               "raw_published_date", yt_meta.published_date)],
           figures |-> <<>>]
    /\ yt_pc' = "returned"
    /\ UNCHANGED <<yt_in, yt_meta, yt_text, yt_raw, yt_error>>
    /\ UNCHANGED exceptYoutube

\* Content.from_llm raised for good: parse raises it
YtParseRaises ==
    /\ yt_pc = "content" /\ yt_content.st = "raised"
    /\ yt_error' = "metadata extraction failed"
    /\ yt_pc' = "raised"
    /\ UNCHANGED <<yt_in, yt_meta, yt_text, yt_content, yt_raw, yt_result>>
    /\ UNCHANGED exceptYoutube

NextYoutube ==
    \/ MetadataThread
    \/ TranscriptThread
    \/ YtGatherRaises
    \/ YtGatherReturns
    \/ YtContentAttemptFails
    \/ YtParseReturns
    \/ YtParseRaises

SpecYoutube == InitYoutube /\ [][NextYoutube]_vars

\* the upload-info call failed: it raised or gave nothing
InfoFailed == yt_in.info.st # "ok"
\* no requested language has a transcript, or transcripts are disabled
TranscriptUnavailable ==
    \/ yt_in.transcripts = "disabled"
    \/ /\ yt_in.transcripts = "ok"
       /\ \A n \in 1..Len(EffectiveLanguages(yt_in.languages)) :
             EffectiveLanguages(yt_in.languages)[n] \notin yt_in.available
Placeholders ==
    [st |-> "returned",
     title |-> "YouTube Video '" \o yt_in.video_id \o "'",
     authors |-> "Unknown Author", published_date |-> "", metadata |-> <<>>]

\* C17: a failed upload-info call gives the placeholder values and is never
\* why parse raises; a transcript unavailable in every requested language
\* makes parse raise the "No transcript available" error and never return;
\* every ParseResult returned has an empty figure list.
C17_VideoFailurePolicy ==
    /\ (InfoFailed /\ yt_meta.st # "running") => yt_meta = Placeholders
    /\ (InfoFailed /\ yt_pc \in {"content", "returned"}) =>
          yt_raw = [raw_title |-> Placeholders.title,
                    raw_authors |-> "Unknown Author",
                    raw_published_date |-> ""]
    /\ yt_pc = "raised" =>
          \/ yt_text.st = "ContentParseError"
          \/ yt_in.meta_outcome = "fail"
    /\ TranscriptUnavailable =>
          /\ yt_pc \notin {"content", "returned"}
          /\ yt_text.st # "running" =>
                /\ yt_text.st = "ContentParseError"
                /\ yt_text.msg = "No transcript available for video ID '"
                                 \o yt_in.video_id \o "'"
          /\ yt_pc = "raised" => yt_error = yt_text.msg
    /\ yt_pc = "returned" => yt_result.figures = <<>>
    /\ yt_pc # "returned" => yt_result = NoResult

\* the upload-info call raised and parse returned all the same
C17_Witness ==
    /\ yt_in.info.st = "raises"
    /\ yt_pc = "returned"
    /\ yt_result.figures = <<>>
    /\ yt_result.content.metadata["raw_authors"] = "Unknown Author"
    /\ yt_in.languages = <<"ja">> /\ yt_in.available = {"ja", "en"}

(***************************************************************************)
(* Content.from_llm after metadata_extractor.ainvoke returned: the list    *)
(* fields are split, the "None" answers of some fields become None, and    *)
(* the Content constructor validates the result.  The extractor's output       *)
(* parser returns each tag's text stripped; a tag that is missing gives no *)
(* key.                                                                    *)
(***************************************************************************)
MaxMetaLen == 3

StrV(s) == [t |-> "str", v |-> s]
ListV(items) == [t |-> "list", v |-> items]
NoneField == [t |-> "none", v |-> <<>>]

\* str.split(","): the pieces between the commas
RECURSIVE SplitComma(_, _)
SplitComma(s, piece) ==
    IF s = <<>> THEN <<piece>>
    ELSE IF Head(s) = COMMA THEN <<piece>> \o SplitComma(Tail(s), <<>>)
    ELSE SplitComma(Tail(s), Append(piece, Head(s)))

NonEmpty(item) == item # <<>>

\* [item.strip() for item in value.split(",") if item.strip()]
SplitItems(s) ==
    LET pieces == SplitComma(s, <<>>)
        stripped == [n \in 1..Len(pieces) |-> Strip(pieces[n])]
    IN  SelectSeq(stripped, NonEmpty)

list_fields == {"authors", "affiliations", "categories", "keywords"}
none_fields == {"authors", "affiliations", "published_date"}

\* the first loop: split the list fields that are present
SplitLists(metadata) ==
    [x \in MetaFields |->
        IF x \in list_fields /\ metadata[x].t = "str"
        THEN ListV(SplitItems(metadata[x].v)) ELSE metadata[x]]

\* metadata.get(field) in (["None"], "None")
IsNoneAnswer(value) ==
    \/ value.t = "list" /\ value.v = <<<<"None">>>>
    \/ value.t = "str" /\ value.v = <<"None">>

\* the second loop: the "None" answers of the none_fields become None
NoneAnswers(metadata) ==
    [x \in MetaFields |->
        IF x \in none_fields /\ IsNoneAnswer(metadata[x])
        THEN NoneField ELSE metadata[x]]

\* published_date: pattern ^\d{4}-\d{2}-\d{2}$
IsDate(s) == s = <<"2024-01-01">>

\* the Content constructor: the field defaults and the validation
NewContent(metadata) ==
    IF \/ metadata["title"].t # "str"
       \/ /\ metadata["published_date"].t = "str"
          /\ ~IsDate(metadata["published_date"].v)
    THEN [st |-> "ValidationError", f |-> [x \in MetaFields |-> AbsentV]]
    ELSE [st |-> "Content",
          f |-> [x \in MetaFields |->
                   IF metadata[x].t # "absent" THEN metadata[x]
                   ELSE IF x = "keywords" THEN ListV(<<>>) ELSE NoneField]]

MetaSymbols == {"Ann", "None", COMMA, SP}
Stripped(s) == s = <<>> \/ (~IsWs(s[1]) /\ ~IsWs(s[Len(s)]))
\* the texts a tag can hold: any stripped text of up to MaxMetaLen symbols
MetaTexts == {s \in SeqsUpTo(MetaSymbols, MaxMetaLen) : Stripped(s)}
FewTexts == {<<"None">>, <<"Ann", COMMA, SP, "None">>}

InitMeta ==
    /\ IdleExceptMeta
    /\ \E focus \in list_fields,
          value \in {AbsentV} \cup {StrV(s) : s \in MetaTexts},
          others \in [list_fields -> {AbsentV} \cup {StrV(s) : s \in FewTexts}],
          title \in {AbsentV, StrV(<<"None">>), StrV(<<"Ann">>)},
          published_date \in {AbsentV, StrV(<<"None">>), StrV(<<"2024-01-01">>),
                              StrV(<<"Ann">>)} :
          md_raw = [x \in MetaFields |->
                       IF x = "title" THEN title
                       ELSE IF x = "published_date" THEN published_date
                       ELSE IF x = focus THEN value ELSE others[x]]
    /\ md_out = NoContent
    /\ md_pc = "answered"

\* lines 188-205 of from_llm
BuildContent ==
    /\ md_pc = "answered"
    /\ md_out' = NewContent(NoneAnswers(SplitLists(md_raw)))
    /\ md_pc' = "done"
    /\ UNCHANGED <<md_raw, exceptMeta>>

NextMeta == BuildContent
SpecMeta == InitMeta /\ [][NextMeta]_vars

\* a symbol of an item: neither the comma nor whitespace
IsText(c) == c # COMMA /\ ~IsWs(c)
\* the comma-separated piece of s that position i lies in
PieceOf(s, i) == Cardinality({j \in 1..(i - 1) : s[j] = COMMA})

\* items is s split on commas, each item trimmed, the empty ones dropped
IsSplitOf(items, s) ==
    /\ \A n \in 1..Len(items) :
          /\ items[n] # <<>>
          /\ \A k \in 1..Len(items[n]) : items[n][k] # COMMA
          /\ ~IsWs(items[n][1]) /\ ~IsWs(items[n][Len(items[n])])
    /\ Len(items) =
          Cardinality({PieceOf(s, i) : i \in {i \in 1..Len(s) : IsText(s[i])}})
    /\ SelectSeq(Concat(items), IsText) = SelectSeq(s, IsText)

C18_SplitTrim ==
    \A x \in list_fields : md_raw[x].t = "str" =>
        \/ md_out.f[x].t = "list" /\ IsSplitOf(md_out.f[x].v, md_raw[x].v)
        \/ md_out.f[x].t = "none" /\ IsSplitOf(<<<<"None">>>>, md_raw[x].v)

C18_NoneIsAbsentIn(fields) ==
    \A x \in fields : md_raw[x] = StrV(<<"None">>) =>
        md_out.f[x] \in {NoneField, ListV(<<>>)}

\* the part of the statement the code keeps: the splitting, and "None" as
\* absent in authors, affiliations and published_date
C18_NormalisedNoneFields ==
    md_out.st = "Content" => C18_SplitTrim /\ C18_NoneIsAbsentIn(none_fields)

\* C18: in the Content built from the extractor's response every list field
\* (authors, affiliations, categories, keywords) is its raw string split on
\* commas, trimmed, without empty items, and a field whose raw string is
\* "None" is null or empty, whichever field it is.
C18_MetadataNormalised ==
    md_out.st = "Content" => C18_SplitTrim /\ C18_NoneIsAbsentIn(MetaFields)

\* the extractor answered "None" for the keywords and the Content keeps it as
\* a keyword
C18_Witness ==
    /\ md_pc = "done" /\ md_out.st = "Content"
    /\ md_raw["keywords"] = StrV(<<"None">>)
    /\ md_out.f["keywords"] = ListV(<<<<"None">>>>)
    /\ md_raw["authors"] = StrV(<<"None">>)
    /\ md_out.f["authors"] = NoneField

(***************************************************************************)
(* Parse properties: retries of the figure tasks.  The outcome             *)
(* "fetch_fail" is _get_image_data raising FigureParseError: the HTTP      *)
(* fetch on the HTML path, the local read on the PDF path, or the          *)
(* compressor giving up on either.                                         *)
(***************************************************************************)
\* the task ended and gave no analysis
NoAnalysis(t) == t.st = "raised" \/ (t.st = "done" /\ t.analysis = NoneV)

SplicerKey(k, t) == IF k = "html" THEN HtmlKey(t) ELSE PdfKey(t)

\* the tasks the token with locator src corresponds to
CandidatesOf(src) ==
    {n \in 1..Len(tasks) : SplicerKey(kind, tasks[n]) = src}

\* the locators of the placeholder tokens of the raw text
TokenLocators ==
    LET ms == FindAll(RawText(kind, doc), 1)
    IN  {Strip(ms[n].g2) : n \in 1..Len(ms)}

\* every candidate's splicer key is the locator of a token of the text
C20_KeysAreLocators ==
    coord \in {"running", "returned"} =>
        \A n \in 1..Len(tasks) : SplicerKey(kind, tasks[n]) \in TokenLocators

\* C20: once the coordinator has its candidates, every placeholder token of
\* the raw text corresponds to exactly one of them, under the key the splicer
\* looks figures up by.
C20_PlaceholderJoin ==
    coord \in {"running", "returned"} =>
        /\ \A src \in TokenLocators : Cardinality(CandidatesOf(src)) = 1
        /\ \A n \in 1..Len(tasks) : SplicerKey(kind, tasks[n]) \in TokenLocators

\* an HTML page whose only image has a data: src: the text holds its token,
\* the coordinator has no candidate, and parse returned
C20_Witness ==
    /\ kind = "html" /\ doc = <<TextEl(<<"Hello">>), ImgEl(<<>>, DataUri)>>
    /\ TokenLocators = {DataUri}
    /\ coord = "returned" /\ tasks = <<>>
    /\ pcP = "returned"

(***************************************************************************)
(* PdfParser._run_upstage_pipeline and its cache file.  parse keeps the    *)
(* file parsed.json in the directory docs/<md5(url)>: the cache is keyed   *)
(* by the url.  The two urls below serve the same document.  Runs follow   *)
(* one another; a run is the cache lookup, then (on a miss or a failed     *)
(* read) the service call and the write of the cache file.                 *)
(***************************************************************************)
MaxRuns == 3

Responses == {"elements-A", "elements-B"}

\* json.dump({"elements": elements}, f): the file a complete write leaves
CacheJson(elements) == [st |-> "json", elements |-> elements]

\* json.load(f).get("elements", []) on a complete file
CachedElements(file) == file.elements

\* a write that reports success and leaves the old file
cache_upstage_response_lost(file, elements, how) == file

\* _cache_upstage_response(path, elements): open(path, "w") fails and the file
\* stays as it was, or the write fails half-way and leaves a truncated file,
\* or the file is written; OSError is logged, never raised
cache_upstage_response(file, elements, how) ==
    CASE how = "open_fails" -> file
      [] how = "write_fails" -> [st |-> "truncated", elements |-> None]
      [] OTHER -> CacheJson(elements)

InitCache ==
    /\ IdleExceptCache
    /\ cache_file = [u \in PdfUrls |-> NoFile]
    /\ up_run = NoRun
    /\ up_runs = 0

StartRun(url, read, st) ==
    /\ up_run.st # "requesting" /\ up_runs < MaxRuns
    /\ up_runs' = up_runs + 1
    /\ up_run' = [url |-> url, before |-> cache_file[url], read |-> read,
                  calls |-> 0,
                  elements |-> IF st = "returned"
                               THEN CachedElements(cache_file[url]) ELSE None,
                  wrote |-> "none", st |-> st]
    /\ UNCHANGED <<cache_file, exceptCache>>

\* parsed_path.exists() and the file loads: no service call
UpstageCacheHit(url) ==
    /\ cache_file[url].st = "json"
    /\ StartRun(url, "ok", "returned")

\* parsed_path.exists() and the load raises: JSONDecodeError on a truncated
\* file, OSError on any file; the service is asked
UpstageCacheUnreadable(url) ==
    /\ cache_file[url].st \in {"json", "truncated"}
    /\ StartRun(url, "raised", "requesting")

\* not parsed_path.exists(): the service is asked
UpstageCacheMiss(url) ==
    /\ cache_file[url].st = "absent"
    /\ StartRun(url, "none", "requesting")

\* _request_upstage_parse returns, _cache_upstage_response writes the file
UpstageResponds(elements, how) ==
    /\ up_run.st = "requesting"
    /\ cache_file' = [cache_file EXCEPT ![up_run.url] =
                         cache_upstage_response(@, elements, how)]
    /\ up_run' = [up_run EXCEPT !.calls = @ + 1, !.elements = elements,
                                !.wrote = how, !.st = "returned"]
    /\ UNCHANGED <<up_runs, exceptCache>>

\* _request_upstage_parse raises (raise_for_status): the pipeline raises
UpstageRaises ==
    /\ up_run.st = "requesting"
    /\ up_run' = [up_run EXCEPT !.calls = @ + 1, !.st = "raised"]
    /\ UNCHANGED <<cache_file, up_runs, exceptCache>>

NextCache ==
    \/ \E url \in PdfUrls : UpstageCacheHit(url)
    \/ \E url \in PdfUrls : UpstageCacheUnreadable(url)
    \/ \E url \in PdfUrls : UpstageCacheMiss(url)
    \/ \E elements \in Responses, how \in {"written", "open_fails", "write_fails"} :
          UpstageResponds(elements, how)
    \/ UpstageRaises

SpecCache == InitCache /\ [][NextCache]_vars

\* the run has ended
RunEnded == up_run.st \in {"returned", "raised"}
\* some url of the document has a complete cache entry
DocumentCached == \E u \in PdfUrls : cache_file[u].st = "json"

C22_LocalRunClear ==
    (last_ret.op = "clear" /\ req_pc[last_ret.req] = "new") =>
        /\ last_ret.got = None
        /\ \E n \in 1..Len(instances) : instances[n] = NewStore(instances[n].slack_channel_id)

\* run_agent's first statement: clear() with no context entered raised
\* RuntimeError and there is no store
C22_Witness ==
    /\ last_ret.op = "clear" /\ last_ret.req = 1
    /\ last_ret.got = "RuntimeError"
    /\ req_pc = [r \in Requests |-> "new"]
    /\ instances = <<>>

(***************************************************************************)
(* The agent's tools in one request (agent/agent_tools.py): parse_* calls, *)
(* generate_summary calls and send_slack_message on one store.  Every tool *)
(* is a coroutine: it can be suspended at each await, and the other tool   *)
(* calls of the request run meanwhile.                                     *)
(***************************************************************************)
ToolUrls == {"http://x/1", "http://x/2"}

\* what the parser returns for a url: the document found there
ParserResult(url) == IF url = "http://x/1" THEN "parse-A" ELSE "parse-B"

\* Summarizer.generate_summary(parsed_result, seed_message): a summary of the
\* parse result it was given
Summarise(parsed_result) ==
    IF parsed_result = "parse-A" THEN "summary-A" ELSE "summary-B"

InitTools ==
    /\ IdleExceptToolStore
    /\ parse_results = <<>> /\ summary_results = <<>>
    /\ last_parse_hash = None /\ last_summary_hash = None
    /\ message_sent = FALSE /\ call = NoCall /\ prev_call = NoCall
    /\ returned = [u \in Urls |-> {}] /\ stored = {} /\ ops = 0
    /\ parse_pc = [p \in ParseCalls |-> "new"]
    /\ parse_url = [p \in ParseCalls |-> None]
    /\ gen_pc = [g \in GenCalls |-> "new"]
    /\ gen_read = [g \in GenCalls |-> None]
    /\ gen_hash = [g \in GenCalls |-> None]
    /\ gen_key = [g \in GenCalls |-> None]
    /\ tool_sent = NoDelivery

\* parse_html / parse_pdf / parse_youtube (url): awaits the parser
ParseToolStarts(p, url) ==
    /\ parse_pc[p] = "new"
    /\ parse_pc' = [parse_pc EXCEPT ![p] = "parsing"]
    /\ parse_url' = [parse_url EXCEPT ![p] = url]
    /\ UNCHANGED <<gen_pc, gen_read, gen_hash, gen_key, tool_sent>>
    /\ UNCHANGED <<storeVars, exceptToolStore>>

\* the parser raised: nothing is stored
ParseToolRaises(p) ==
    /\ parse_pc[p] = "parsing"
    /\ parse_pc' = [parse_pc EXCEPT ![p] = "raised"]
    /\ UNCHANGED <<parse_url, gen_pc, gen_read, gen_hash, gen_key, tool_sent>>
    /\ UNCHANGED <<storeVars, exceptToolStore>>

\* the parser returned: state_manager.store_parse_result(url, result)
ParseToolStores(p) ==
    /\ parse_pc[p] = "parsing"
    /\ store_parse_result(parse_url[p], ParserResult(parse_url[p]))
    /\ parse_pc' = [parse_pc EXCEPT ![p] = "done"]
    /\ UNCHANGED <<parse_url, gen_pc, gen_read, gen_hash, gen_key, tool_sent>>
    /\ UNCHANGED exceptToolStore

\* generate_summary: parsed_result = state_manager.get_parse_result(), then
\* it awaits the summarizer
GenReads(g) ==
    /\ gen_pc[g] = "new"
    /\ ParseResultFor(None) # "ValueError"
    /\ gen_read' = [gen_read EXCEPT ![g] = ParseResultFor(None)]
    /\ gen_hash' = [gen_hash EXCEPT ![g] = last_parse_hash]
    /\ gen_pc' = [gen_pc EXCEPT ![g] = "summarising"]
    /\ UNCHANGED <<parse_pc, parse_url, gen_key, tool_sent>>
    /\ UNCHANGED <<storeVars, exceptToolStore>>

\* generate_summary with nothing parsed: get_parse_result() raises ValueError
GenReadRaises(g) ==
    /\ gen_pc[g] = "new"
    /\ ParseResultFor(None) = "ValueError"
    /\ gen_pc' = [gen_pc EXCEPT ![g] = "raised"]
    /\ UNCHANGED <<parse_pc, parse_url, gen_read, gen_hash, gen_key, tool_sent>>
    /\ UNCHANGED <<storeVars, exceptToolStore>>

\* the summarizer raised
GenSummariserRaises(g) ==
    /\ gen_pc[g] = "summarising"
    /\ gen_pc' = [gen_pc EXCEPT ![g] = "raised"]
    /\ UNCHANGED <<parse_pc, parse_url, gen_read, gen_hash, gen_key, tool_sent>>
    /\ UNCHANGED <<storeVars, exceptToolStore>>

\* the summarizer returned: parse_hash = state_manager._last_parse_hash, read
\* now, and store_summary_result(parse_hash, summary_result) if it is set
GenStores(g) ==
    /\ gen_pc[g] = "summarising"
    /\ LET summary_result == Summarise(gen_read[g])
           parse_hash == last_parse_hash
       IN  IF parse_hash # None
           THEN /\ store_summary_result(parse_hash, summary_result)
                /\ gen_key' = [gen_key EXCEPT ![g] = SummaryHash(parse_hash)]
           ELSE UNCHANGED <<storeVars, gen_key>>
    /\ gen_pc' = [gen_pc EXCEPT ![g] = "done"]
    /\ UNCHANGED <<parse_pc, parse_url, gen_read, gen_hash, tool_sent>>
    /\ UNCHANGED exceptToolStore

\* send_slack_message with the flag unset and both lookups succeeding: the
\* pair handed to the broadcast, and the mark when the broadcast succeeded
SendSlackMessage(success) ==
    /\ ~AlreadySent
    /\ "ValueError" \notin {ParseResultFor(None), SummaryResultFor(None)}
    /\ tool_sent' = [parse |-> ParseResultFor(None),
                     summary |-> SummaryResultFor(None)]
    /\ message_sent' = success
    /\ UNCHANGED <<parse_results, summary_results, last_parse_hash,
                   last_summary_hash, call, prev_call, returned, stored, ops>>
    /\ UNCHANGED <<parse_pc, parse_url, gen_pc, gen_read, gen_hash, gen_key>>
    /\ UNCHANGED exceptToolStore

NextTools ==
    \/ \E p \in ParseCalls, url \in ToolUrls : ParseToolStarts(p, url)
    \/ \E p \in ParseCalls : ParseToolRaises(p)
    \/ \E p \in ParseCalls : ParseToolStores(p)
    \/ \E g \in GenCalls : GenReads(g)
    \/ \E g \in GenCalls : GenReadRaises(g)
    \/ \E g \in GenCalls : GenSummariserRaises(g)
    \/ \E g \in GenCalls : GenStores(g)
    \/ \E success \in BOOLEAN : SendSlackMessage(success)

SpecTools == InitTools /\ [][NextTools]_vars

\* C23: a summary that generate_summary stored under h + "_sum" was generated
\* from the parse result stored under h, whatever parse_* call completed
\* between its read of the parse result and its read of the last-parse pointer
C23_SummaryTraceability ==
    \A g \in GenCalls :
        (gen_pc[g] = "done" /\ gen_key[g] # None) =>
            /\ gen_key[g] = SummaryHash(gen_hash[g])
            /\ summary_results[gen_key[g]] \in
                   {Summarise(ParserResult(u)) : u \in {v \in ToolUrls :
                       SummaryHash(GenerateHash(v)) = gen_key[g]}}

\* a summary of the document at url 1 was stored under the hash of url 2,
\* whose parse call completed while the summarizer was awaited
C23_Witness ==
    /\ gen_pc[1] = "done"
    /\ gen_read[1] = ParserResult("http://x/1")
    /\ gen_hash[1] = GenerateHash("http://x/1")
    /\ gen_key[1] = SummaryHash(GenerateHash("http://x/2"))
    /\ summary_results[gen_key[1]] = Summarise(ParserResult("http://x/1"))

\* C24: whenever both last pointers are set the last-summary hash is the
\* last-parse hash suffixed with "_sum", and what send_slack_message delivers
\* is a summary with the parse result it was generated from
C24_PointerConsistency ==
    /\ (last_parse_hash # None /\ last_summary_hash # None) =>
           last_summary_hash = SummaryHash(last_parse_hash)
    /\ tool_sent # NoDelivery => tool_sent.summary = Summarise(tool_sent.parse)

\* the parse result of url 2 was delivered with the summary of url 1
C24_Witness ==
    /\ tool_sent = [parse |-> ParserResult("http://x/2"),
                    summary |-> Summarise(ParserResult("http://x/1"))]
    /\ last_parse_hash = GenerateHash("http://x/2")
    /\ last_summary_hash = SummaryHash(GenerateHash("http://x/1"))

(***************************************************************************)
(* Delivery properties: overlapping send_slack_message calls               *)
(***************************************************************************)
\* C25: two send_slack_message calls of one request that overlap broadcast the
\* summary at most once between them.
C25_AtMostOnceDelivery ==
    \A c, d \in SendCalls :
        (c # d /\ send_pc[c] \in {"sending", "posted"}
               /\ send_pc[d] \in {"sending", "posted"}) =>
            send_delivered[c] + send_delivered[d] <= 1

\* both calls read the flag as unset, both posted, both returned "sent"
C25_Witness ==
    /\ \A c \in SendCalls : send_saw[c] = "False" /\ send_delivered[c] = 1
                              /\ send_ret[c] = "sent"
    /\ message_sent

\* a step of call c
StepOf(c) == send_pc'[c] # send_pc[c]

\* the tool's steps and the flag: a tool step sets the flag exactly when it is
\* the return from a broadcast in which a channel post succeeded; the step of a
\* failed broadcast, of a raising broadcast and of a raising lookup leave it
C26_ToolSteps ==
    \A c \in SendCalls : StepOf(c) =>
        /\ message_sent' # message_sent =>
              /\ message_sent'
              /\ send_delivered[c] >= 1
              /\ send_ret'[c] = "sent"
        /\ send_ret'[c] = "sent" => message_sent' /\ send_delivered[c] >= 1
        /\ send_ret'[c] \in {"failed", "Exception", "ValueError"} =>
              /\ message_sent' = message_sent
              /\ send_delivered'[c] = 0

\* a call that starts while the flag is unset is not skipped: it goes on to
\* the lookups and the broadcast
C26_Retried ==
    \A c \in SendCalls :
        (send_pc[c] = "new" /\ StepOf(c) /\ ~message_sent) =>
            /\ send_ret'[c] # "already sent"
            /\ send_pc'[c] \in {"sending", "raised"}

\* C26: send_slack_message sets the delivered flag if and only if the broadcast
\* reported success; after a failed or raising broadcast or a raising lookup
\* the flag is as it was, and a later call attempts the delivery again
C26_FlagIffSuccess == [][C26_ToolSteps /\ C26_Retried]_vars

\* one call failed without a post and left the flag unset, the other call then
\* started, posted and set the flag
C26_Witness ==
    /\ send_ret[1] = "failed" /\ send_delivered[1] = 0
    /\ send_ret[2] = "sent" /\ send_delivered[2] = 1
    /\ message_sent

(***************************************************************************)
(* Store properties: what each operation leaves alone                      *)
(***************************************************************************)
\* table changed in the slot of key at most
OnlySlot(table, key) ==
    /\ DOMAIN table' = DOMAIN table \cup {key}
    /\ \A k \in DOMAIN table : k # key => table'[k] = table[k]

C27_StoreParseFrame ==
    call'.op = "store_parse_result" =>
        /\ OnlySlot(parse_results, call'.out)
        /\ parse_results'[call'.out] = call'.val
        /\ last_parse_hash' = call'.out
        /\ summary_results' = summary_results
        /\ last_summary_hash' = last_summary_hash
        /\ message_sent' = message_sent

C27_StoreSummaryFrame ==
    call'.op = "store_summary_result" =>
        /\ OnlySlot(summary_results, call'.out)
        /\ summary_results'[call'.out] = call'.val
        /\ last_summary_hash' = call'.out
        /\ parse_results' = parse_results
        /\ last_parse_hash' = last_parse_hash
        /\ message_sent' = message_sent

C27_MarkFrame ==
    call'.op = "mark_message_sent" =>
        /\ message_sent'
        /\ parse_results' = parse_results
        /\ summary_results' = summary_results
        /\ last_parse_hash' = last_parse_hash
        /\ last_summary_hash' = last_summary_hash

C27_ReadFrame ==
    call'.op \in {"get_parse_result", "get_summary_result", "message_sent"} =>
        StoreState' = StoreState

\* C27: store_parse_result changes only the parse slot of its hash and the
\* last-parse pointer; store_summary_result only its summary slot and the
\* last-summary pointer; mark_message_sent only the flag; get_parse_result,
\* get_summary_result and the message_sent read change nothing
C27_FrameConditions ==
    [][ops' # ops => /\ C27_StoreParseFrame /\ C27_StoreSummaryFrame
                     /\ C27_MarkFrame /\ C27_ReadFrame]_vars

\* a second parse result was stored beside a first one, with a summary and the
\* flag in place
C27_Witness ==
    /\ call.op = "store_parse_result"
    /\ Cardinality(DOMAIN parse_results) = 2
    /\ summary_results # <<>>
    /\ message_sent

(***************************************************************************)
(* tool_state_context (agent/tool_state.py 89-98) nested in one execution  *)
(* context, left normally or by an exception, with state_manager calls     *)
(* inside and outside the blocks.                                          *)
(***************************************************************************)
MaxDepth == 3
MaxStores == 4
ScopeOps == {"mark_message_sent", "message_sent"}

\* a reset that leaves the variable unset
reset_to_unset(token) == 0

\* _state_context.reset(token): the value the variable had before the set()
\* that returned the token (0: it had none)
reset(token) == token.old_value

InitScope ==
    /\ IdleExceptScope
    /\ cv_value = 0 /\ cv_frames = <<>> /\ cv_made = 0
    /\ cv_exited = {} /\ cv_marked = {} /\ cv_raising = "no"
    /\ cv_last = NoScopeCall

\* with tool_state_context(...): state = ToolStateManager(),
\* token = _state_context.set(state), yield
ScopeEnter ==
    /\ cv_raising = "no"
    /\ Len(cv_frames) < MaxDepth /\ cv_made < MaxStores
    /\ cv_made' = cv_made + 1
    /\ cv_frames' = Append(cv_frames, [store |-> cv_made + 1, token |-> [old_value |-> cv_value]])
    /\ cv_value' = cv_made + 1
    /\ UNCHANGED <<cv_exited, cv_marked, cv_raising, cv_last>>
    /\ UNCHANGED exceptScope

\* the body of the innermost block raises
ScopeBodyRaises ==
    /\ cv_raising = "no" /\ cv_frames # <<>>
    /\ cv_raising' = "body"
    /\ UNCHANGED <<cv_value, cv_frames, cv_made, cv_exited, cv_marked, cv_last>>
    /\ UNCHANGED exceptScope

\* the innermost block is left, by its end or by the exception: the finally
\* clause resets the variable with the block's token
ScopeExit ==
    /\ cv_frames # <<>>
    /\ LET frame == cv_frames[Len(cv_frames)]
       IN  /\ cv_value' = reset(frame.token)
           /\ cv_exited' = cv_exited \cup {frame.store}
    /\ cv_frames' = SubSeq(cv_frames, 1, Len(cv_frames) - 1)
    /\ cv_raising' = IF cv_raising = "no" THEN "no" ELSE "left"
    /\ UNCHANGED <<cv_made, cv_marked, cv_last>>
    /\ UNCHANGED exceptScope

\* an except clause around a block that was left catches the exception
ScopeCaught ==
    /\ cv_raising = "left"
    /\ cv_raising' = "no"
    /\ UNCHANGED <<cv_value, cv_frames, cv_made, cv_exited, cv_marked, cv_last>>
    /\ UNCHANGED exceptScope

\* state_manager.<op>: get_state_manager() gives the variable's store, or
\* raises RuntimeError when it has none
ScopeCall(op) ==
    /\ cv_raising = "no"
    /\ cv_last' = [op |-> op, at |-> cv_value,
                   got |-> IF cv_value = 0 THEN "RuntimeError"
                           ELSE IF op = "message_sent"
                                THEN (IF cv_value \in cv_marked THEN "True" ELSE "False")
                                ELSE None]
    /\ cv_marked' = IF cv_value # 0 /\ op = "mark_message_sent"
                    THEN cv_marked \cup {cv_value} ELSE cv_marked
    /\ UNCHANGED <<cv_value, cv_frames, cv_made, cv_exited, cv_raising>>
    /\ UNCHANGED exceptScope

NextScope ==
    \/ ScopeEnter
    \/ ScopeBodyRaises
    \/ ScopeExit
    \/ ScopeCaught
    \/ \E op \in ScopeOps : ScopeCall(op)

SpecScope == InitScope /\ [][NextScope]_vars

\* the store of the innermost open block, 0 when no block is open
Enclosing(frames) == IF frames = <<>> THEN 0 ELSE frames[Len(frames)].store

\* the active store is the store of the innermost open block (none when no
\* block is open), so leaving a block gives back what was active before it
C28_Reverts == cv_value = Enclosing(cv_frames)

\* no store of a left block is active, and no call has reached one
C28_ExitedUnreachable ==
    /\ cv_value \notin cv_exited
    /\ \A n \in 1..Len(cv_frames) : cv_frames[n].store \notin cv_exited

\* a call with no active store raised RuntimeError and constructed no store
C28_NoContextRaises ==
    cv_last.op # "none" => (cv_last.at = 0 <=> cv_last.got = "RuntimeError")

C28_CallSteps ==
    (cv_last' # cv_last \/ cv_marked' # cv_marked) =>
        /\ cv_made' = cv_made /\ cv_value' = cv_value
        /\ cv_last'.at = cv_value /\ cv_last'.at \notin cv_exited
        /\ cv_value = 0 => cv_marked' = cv_marked

\* C28: leaving tool_state_context, normally or by an exception, gives back
\* exactly the store that was active before the block (none, or the store of
\* the enclosing block); the store of a left block is never reached again
\* through state_manager; a state_manager call with no active store raises
\* RuntimeError and constructs nothing
C28_ContextScoping ==
    /\ [](C28_Reverts /\ C28_ExitedUnreachable /\ C28_NoContextRaises)
    /\ [][C28_CallSteps]_vars

\* an inner block was left by an exception that was then caught inside the
\* outer block, whose store is active again and was reached by a call
C28_Witness ==
    /\ Len(cv_frames) = 1 /\ cv_value = cv_frames[1].store
    /\ cv_exited # {} /\ cv_raising = "no"
    /\ cv_last.at = cv_value /\ cv_last.got = "True"
    /\ cv_made >= 2

(***************************************************************************)
(* Event deduplication (lambda_handlers/slack_event_handler.py): handler   *)
(* invocations that carry the same event id, or the same invocation id,    *)
(* run concurrently against one table, within the TTL of the item.         *)
(***************************************************************************)
InitDedup ==
    /\ IdleExceptDedup
    /\ ddb_item = FALSE
    /\ dd_pc = [h \in Invocations |-> "new"]
    /\ dd_ret = [h \in Invocations |-> None]
    /\ dd_failed = [h \in Invocations |-> FALSE]
    /\ rt_invoked = 0

\* get_item(..., ConsistentRead=True) finds the item: return True, and the
\* handler answers 200 without invoking anything
DedupGetFound(h) ==
    /\ dd_pc[h] = "new"
    /\ ddb_item
    /\ dd_ret' = [dd_ret EXCEPT ![h] = "True"]
    /\ dd_pc' = [dd_pc EXCEPT ![h] = "done"]
    /\ UNCHANGED <<ddb_item, dd_failed, rt_invoked>>
    /\ UNCHANGED exceptDedup

\* get_item finds no item
DedupGetMissing(h) ==
    /\ dd_pc[h] = "new"
    /\ ~ddb_item
    /\ dd_pc' = [dd_pc EXCEPT ![h] = "got"]
    /\ UNCHANGED <<ddb_item, dd_ret, dd_failed, rt_invoked>>
    /\ UNCHANGED exceptDedup

\* put_item(Item={event_id, ttl, timestamp}), unconditional: return False
DedupPut(h) ==
    /\ dd_pc[h] = "got"
    /\ ddb_item' = TRUE
    /\ dd_ret' = [dd_ret EXCEPT ![h] = "False"]
    /\ dd_pc' = [dd_pc EXCEPT ![h] = "returned"]
    /\ UNCHANGED <<dd_failed, rt_invoked>>
    /\ UNCHANGED exceptDedup

\* get_item or put_item raises: logged, return False
DedupFails(h) ==
    /\ dd_pc[h] \in {"new", "got"}
    /\ dd_failed' = [dd_failed EXCEPT ![h] = TRUE]
    /\ dd_ret' = [dd_ret EXCEPT ![h] = "False"]
    /\ dd_pc' = [dd_pc EXCEPT ![h] = "returned"]
    /\ UNCHANGED <<ddb_item, rt_invoked>>
    /\ UNCHANGED exceptDedup

\* not a duplicate: invoke_agentcore_runtime(text, channel)
InvokeRuntime(h) ==
    /\ dd_pc[h] = "returned"
    /\ rt_invoked' = rt_invoked + 1
    /\ dd_pc' = [dd_pc EXCEPT ![h] = "done"]
    /\ UNCHANGED <<ddb_item, dd_ret, dd_failed>>
    /\ UNCHANGED exceptDedup

NextDedup ==
    \/ \E h \in Invocations : DedupGetFound(h)
    \/ \E h \in Invocations : DedupGetMissing(h)
    \/ \E h \in Invocations : DedupPut(h)
    \/ \E h \in Invocations : DedupFails(h)
    \/ \E h \in Invocations : InvokeRuntime(h)

SpecDedup == InitDedup /\ [][NextDedup]_vars

\* C29: with the table reachable (no DynamoDB call raised), is_duplicate_event
\* returns false for at most one of the invocations that carry one event id,
\* and the agent runtime is invoked at most once
C29_AtMostOneFirst ==
    (\A h \in Invocations : ~dd_failed[h]) =>
        /\ Cardinality({h \in Invocations : dd_ret[h] = "False"}) <= 1
        /\ rt_invoked <= 1

\* two invocations both found no item, both put it, and both invoked the
\* runtime; the third one found the item
C29_Witness ==
    /\ \A h \in Invocations : ~dd_failed[h]
    /\ dd_ret = <<"False", "False", "True">>
    /\ rt_invoked = 2
    /\ \A h \in Invocations : dd_pc[h] = "done"

(***************************************************************************)
(* Compressor properties: the quality and dimension schedule               *)
(***************************************************************************)
\* 85, 75, ..., 15, 5
ScheduleQualities == {DEFAULT_RESIZE_QUALITY - n * QUALITY_STEP : n \in 0..8}

C30_Schedule ==
    /\ shrinks <= 2
    /\ buf # NoEncode =>
          /\ buf.q \in ScheduleQualities
          /\ buf.w >= (((image.w * 4) \div 5) * 4) \div 5
          /\ buf.h >= (((image.h * 4) \div 5) * 4) \div 5

\* a step that shrinks made an encode at quality <= 10 that did not fit
C30_ShrinkSteps ==
    (width' # width \/ height' # height \/ shrinks' # shrinks) =>
        /\ buf'.q <= 10
        /\ ~Fits(buf'.size)
        /\ shrinks' = shrinks + 1

\* C30: every encode uses a quality in {85, 75, ..., 15, 5}; the dimensions
\* shrink only after an encode at quality <= 10 failed to fit; at most two
\* shrinks occur in a run, so every encode is of at least
\* int(0.8 * int(0.8 * original)) in width and in height
C30_ScheduleBounds == []C30_Schedule /\ [][C30_ShrinkSteps]_vars

\* the twentieth encode, made after two shrinks at the twice-scaled size
C30_Witness ==
    /\ encodes = max_iterations
    /\ shrinks = 2
    /\ buf.w = Scale(Scale(image.w)) /\ buf.h = Scale(Scale(image.h))
    /\ buf.q = 75

====
